---- MODULE Spec2Model ----
(***************************************************************************)
(* Model of the mesh bonding engine: the link aggregator (weights, mode,   *)
(* selection, bounded send queues), the failover manager (health counters, *)
(* failed set, event log, state inference) and node discovery (payload     *)
(* validation, peer table, stale cleanup), with the local node record they *)
(* read.                                                                   *)
(***************************************************************************)
EXTENDS Integers, Sequences, FiniteSets, TLC

VARIABLES
    local_node,          \* MeshManager.local_node: connections, bandwidth, latency, data_caps
    max_queue_size,      \* LinkAggregator.max_queue_size
    aggregation_mode,    \* LinkAggregator.aggregation_mode
    active_connections,  \* LinkAggregator.active_connections: interface -> connection info
    connection_weights,  \* LinkAggregator.connection_weights: interface -> weight (a rational)
    packet_queues,       \* LinkAggregator.packet_queues: interface -> deque(maxlen)
    agg_running,         \* LinkAggregator.running (set by initialize)
    ret,                 \* what the most recent queue_packet / get_packet_from_queue returned
    fo_state,            \* FailoverManager.state
    primary_interface,   \* FailoverManager.primary_interface
    backup_interfaces,   \* FailoverManager.backup_interfaces
    failed_interfaces,   \* FailoverManager.failed_interfaces
    failure_counts,      \* FailoverManager.failure_counts (a dict: missing key reads as 0)
    success_counts,      \* FailoverManager.success_counts
    failover_events,     \* FailoverManager.failover_events
    log_critical,        \* number of logger.critical records the most recent call emitted
    check_run,           \* per interface, its latest run of consecutive health checks of
                         \* one outcome, unbroken by another failover operation
    recovery_run,        \* per interface, the consecutive healthy checks it has had as a
                         \* member of the failed set since it entered the set
    node_id,             \* NodeDiscovery.node_id
    mac_address,         \* NodeDiscovery.mac_address
    mesh_nodes,          \* MeshManager.mesh_nodes: node_id -> MeshNode
    discovered_nodes,    \* what the most recent discover_nodes returned
    clock,               \* time.time() at the stale cleanup of the most recent discovery tick
    running,             \* MeshManager.running
    pc,                  \* per loop, where its coroutine stands
    cancel,              \* the tasks whose cancel() was called and not yet delivered
    to_merge,            \* _run_node_discovery: the payloads its merge loop has still to visit
    tick_log,            \* what the current discovery tick has done so far, in order
    status,              \* what the most recent get_mesh_status returned
    published,           \* per interface of the local node, the (bandwidth, latency, data_cap)
                         \* that its last complete measurement round produced
    interfaces,          \* MetricsCollector.interfaces: interface -> InterfaceMetrics
    health_call          \* the most recent _check_connection_health call on its own: what
                         \* its probes did and what it returned

aggVars == <<max_queue_size, aggregation_mode, active_connections,
             connection_weights, packet_queues, agg_running, ret>>
foVars == <<fo_state, primary_interface, backup_interfaces, failed_interfaces,
            failure_counts, success_counts, failover_events, log_critical,
            check_run, recovery_run>>
discVars == <<node_id, mac_address, mesh_nodes, discovered_nodes, clock>>
mgrVars == <<running, pc, cancel, to_merge, tick_log, status, published,
            interfaces, health_call>>
vars == <<local_node, aggVars, foVars, discVars, mgrVars>>

None == "None"

-----------------------------------------------------------------------------
(* Bounds of the model *)

\* Largest max_queue_size the model configures (the program's default is 1000).
MaxQueueCfg == 2
\* An interface's metrics are collected at most this many times (its history
\* keeps history_size samples).
MaxCollections == 103
\* A health check is configured with at most this many targets (the program's
\* default list has two).
MaxTargets == 4
\* The aggregator is sent at most this many packets.
MaxPackets == 3
\* Health counters are followed up to this value.
MaxCount == 4
\* The failover event log is followed up to this length.
MaxEvents == 2
\* The discovery clock stops here (seconds).
MaxTime == 85
\* The most payloads one listen window captures.
MaxResponses == 2

-----------------------------------------------------------------------------
(* Inputs *)

\* Interface names; ppp0 is a name that is not an interface of the local node.
Names == {"eth0", "wlan0", "ppp0"}
\* What discover_interfaces can return for the hosts of the model.
ConnectionChoices == {<< >>, <<"eth0">>, <<"eth0", "wlan0">>}
\* Latency measurements: two reachable values and the unreachable sentinel.
LatencyValues == {10, 25, 1000}
\* Payloads: an identity and a byte length (empty, small, large).
Payloads == {[id |-> 1, len |-> 0], [id |-> 2, len |-> 100], [id |-> 3, len |-> 2000]}
PacketSizes == {p.len : p \in Payloads}
Modes == {"load_balance", "failover", "adaptive"}
\* The backup lists set_backup_interfaces is given.
BackupChoices == {<< >>, <<"eth0", "wlan0">>, <<"wlan0", "ppp0">>}

Range(s) == {s[k] : k \in 1..Len(s)}

\* Return values of the aggregator's queue calls: None, True, False or a payload.
NoPayload == [id |-> 0, len |-> 0]
RetNone == [kind |-> "None", payload |-> NoPayload]
RetTrue == [kind |-> "True", payload |-> NoPayload]
RetFalse == [kind |-> "False", payload |-> NoPayload]
RetPayload(p) == [kind |-> "payload", payload |-> p]

-----------------------------------------------------------------------------
(* Rational numbers <<n, d>>, d > 0, in lowest terms: the weights are floats *)
(* in the program and are computed here exactly.                            *)

Abs(x) == IF x < 0 THEN -x ELSE x

RECURSIVE GCD(_, _)
GCD(a, b) == IF b = 0 THEN a ELSE GCD(b, a % b)

Rat(n, d) ==
    LET s == IF d < 0 THEN -1 ELSE 1
        g == GCD(Abs(n), Abs(d))
    IN  IF n = 0 THEN <<0, 1>> ELSE <<(s * n) \div g, (s * d) \div g>>

RZero == <<0, 1>>
ROne == <<1, 1>>
RAdd(x, y) == Rat(x[1] * y[2] + y[1] * x[2], x[2] * y[2])
RMul(x, y) == Rat(x[1] * y[1], x[2] * y[2])
RDiv(x, y) == Rat(x[1] * y[2], x[2] * y[1])
RLess(x, y) == x[1] * y[2] < y[1] * x[2]
RMax(x, y) == IF RLess(x, y) THEN y ELSE x

RECURSIVE RSum(_, _)
\* Sum of f[s[k]] over the sequence s.
RSum(f, s) == IF s = << >> THEN RZero ELSE RAdd(f[Head(s)], RSum(f, Tail(s)))

-----------------------------------------------------------------------------
(* Metrics collector: what a measurement can return *)

\* _simple_bandwidth_test: a class estimate keyed on the interface name.
SimpleBandwidthTest(i) ==
    CASE i = "eth0" -> 100
      [] i = "wlan0" -> 50
      [] i = "ppp0" -> 15
      [] OTHER -> 10

\* measure_bandwidth: the estimate, or 0.0 when the test raised.
MeasureBandwidth(i) == {SimpleBandwidthTest(i), 0}

\* measure_latency: the mean of the positive RTTs, or 1000.0 when none succeeded.
MeasureLatency(i) == LatencyValues

\* get_data_cap: 0.0 on every path.
GetDataCap(i) == 0

\* The local node records _initialize_local_node can build.
LocalNodes ==
    UNION {
        {[connections |-> c, bandwidth |-> b, latency |-> l,
          data_caps |-> [i \in Range(c) |-> GetDataCap(i)]] :
            b \in {f \in [Range(c) -> {0, 10, 15, 50, 100}] :
                      \A i \in Range(c) : f[i] \in MeasureBandwidth(i)},
            l \in {f \in [Range(c) -> LatencyValues] :
                      \A i \in Range(c) : f[i] \in MeasureLatency(i)}} :
        c \in ConnectionChoices}

\* One local node per choice of interfaces, every interface at its class
\* bandwidth and the lowest latency.
NominalNodes ==
    {n \in LocalNodes : \A i \in Range(n.connections) :
        n.bandwidth[i] = SimpleBandwidthTest(i) /\ n.latency[i] = 10}

\* The local nodes of the send-queue runs: class bandwidth, and every
\* interface reachable or every interface unreachable.
QueueNodes ==
    {n \in LocalNodes : \A i \in Range(n.connections) :
        /\ n.bandwidth[i] = SimpleBandwidthTest(i)
        /\ n.latency[i] \in {10, 1000}
        /\ \A j \in Range(n.connections) : n.latency[j] = n.latency[i]}

-----------------------------------------------------------------------------
(* Link aggregator *)

\* dict.get(key, default)
Get(d, k, default) == IF k \in DOMAIN d THEN d[k] ELSE default

\* d[k] = v of a Python dict.
Put(d, k, v) == [x \in DOMAIN d \cup {k} |-> IF x = k THEN v ELSE d[x]]

\* Iteration order of active_connections: the dict is filled in the order of
\* local_node.connections and never gains or loses a key afterwards.
ConnOrder == SelectSeq(local_node.connections, LAMBDA i : i \in DOMAIN active_connections)

\* deque(maxlen).append: a full deque discards its oldest item.
DequeAppend(q, x) ==
    IF Len(q.items) >= q.maxlen
    THEN [q EXCEPT !.items = Append(Tail(q.items), x)]
    ELSE [q EXCEPT !.items = Append(q.items, x)]

-----------------------------------------------------------------------------
(* Metrics collector: the rolling history of an interface *)

\* MetricsCollector.history_size
history_size == 100

\* PerformanceMetrics(): every field at its default.
DefaultMetrics ==
    [bandwidth_up |-> 0, bandwidth_down |-> 0, latency |-> 0, jitter |-> 0,
     packet_loss |-> 0, timestamp |-> 0]

\* What the four measurements of one collection can return: every ping
\* answered, or none (bandwidth 0.0 off its except branch, the latency
\* sentinel, no jitter for want of two RTTs, every packet lost).
ReachableMeasure(i) ==
    [bandwidth |-> SimpleBandwidthTest(i), latency |-> 10, jitter |-> 2, packet_loss |-> 0]
UnreachableMeasure(i) ==
    [bandwidth |-> 0, latency |-> 1000, jitter |-> 0, packet_loss |-> 100]

RECURSIVE Sum(_)
Sum(values) == IF values = << >> THEN 0 ELSE Head(values) + Sum(Tail(values))

\* statistics.mean of a non-empty list, as an exact rational.
Mean(values) == Rat(Sum(values), Len(values))

\* max of a non-empty list.
Max(values) ==
    CHOOSE v \in Range(values) : \A w \in Range(values) : w <= v

\* An update that takes the averages from all but the newest sample.
UpdateAveragesAndPeaks_LagsOneSample(iface_metrics, now) ==
    LET history == iface_metrics.history.items
        seen == IF Len(history) > 1 THEN SubSeq(history, 1, Len(history) - 1) ELSE history
        bandwidths == [k \in DOMAIN seen |-> seen[k].bandwidth_up]
        latencies == [k \in DOMAIN seen |-> seen[k].latency]
        jitters == [k \in DOMAIN seen |-> seen[k].jitter]
        losses == [k \in DOMAIN seen |-> seen[k].packet_loss]
    IN  [iface_metrics EXCEPT
            !.averages = [bandwidth_up |-> Mean(bandwidths), bandwidth_down |-> Mean(bandwidths),
                          latency |-> Mean(latencies), jitter |-> Mean(jitters),
                          packet_loss |-> Mean(losses), timestamp |-> now],
            !.peaks = [bandwidth_up |-> Max(bandwidths), bandwidth_down |-> Max(bandwidths),
                       latency |-> Max(latencies), jitter |-> Max(jitters),
                       packet_loss |-> Max(losses), timestamp |-> now]]

\* _update_averages_and_peaks, called at time now: both snapshots are rebuilt
\* from the history (bandwidth_down from the bandwidth_up values as well).
UpdateAveragesAndPeaks(iface_metrics, now) ==
    LET history == iface_metrics.history.items
        bandwidths == [k \in DOMAIN history |-> history[k].bandwidth_up]
        latencies == [k \in DOMAIN history |-> history[k].latency]
        jitters == [k \in DOMAIN history |-> history[k].jitter]
        losses == [k \in DOMAIN history |-> history[k].packet_loss]
    IN  IF history = << >> THEN iface_metrics
        ELSE [iface_metrics EXCEPT
                !.averages = [bandwidth_up |-> Mean(bandwidths),
                              bandwidth_down |-> Mean(bandwidths),
                              latency |-> Mean(latencies), jitter |-> Mean(jitters),
                              packet_loss |-> Mean(losses), timestamp |-> now],
                !.peaks = [bandwidth_up |-> Max(bandwidths), bandwidth_down |-> Max(bandwidths),
                           latency |-> Max(latencies), jitter |-> Max(jitters),
                           packet_loss |-> Max(losses), timestamp |-> now]]

\* collect_interface_metrics(interface), its four measurements having
\* returned measure at time now. No measurement raises (each has its own
\* except branch), and nothing suspends between the append and the update.
CollectInterfaceMetrics(interface, measure, now) ==
    LET current_metrics ==
            [bandwidth_up |-> measure.bandwidth, bandwidth_down |-> measure.bandwidth,
             latency |-> measure.latency, jitter |-> measure.jitter,
             packet_loss |-> measure.packet_loss, timestamp |-> now]
        iface_metrics ==
            IF interface \in DOMAIN interfaces THEN interfaces[interface]
            ELSE [interface |-> interface, current |-> current_metrics,
                  history |-> [items |-> << >>, maxlen |-> history_size],
                  averages |-> DefaultMetrics, peaks |-> DefaultMetrics]
        appended == [iface_metrics EXCEPT !.history = DequeAppend(@, current_metrics),
                                          !.current = current_metrics]
    IN  /\ interfaces' = Put(interfaces, interface, UpdateAveragesAndPeaks(appended, now))
        /\ UNCHANGED <<local_node, aggVars, foVars, discVars, running, pc, cancel, to_merge,
                       tick_log, status, published, health_call>>

\* A disqualification test that forgets the latency sentinel.
Disqualified_IgnoresLatency(info) == ~info.active \/ info.bandwidth <= 0

\* The test of _calculate_weights that gives an interface weight 0.
Disqualified(info) == ~info.active \/ info.bandwidth <= 0 \/ info.latency >= 1000

\* 100 / latency raises ZeroDivisionError for a qualifying interface of latency 0.
WeightsRaise(ac) == \E i \in DOMAIN ac : ~Disqualified(ac[i]) /\ ac[i].latency = 0

\* weight = (bandwidth / 100) * max(0.1, 100 / latency)
RawWeight(info) ==
    RMul(Rat(info.bandwidth, 100), RMax(Rat(1, 10), Rat(100, info.latency)))

\* _calculate_weights: the new connection_weights.
CalculateWeights(ac, order) ==
    LET weights == [i \in DOMAIN ac |->
                        IF Disqualified(ac[i]) THEN RZero ELSE RawWeight(ac[i])]
        total_weight == RSum(weights, order)
    IN  IF RLess(RZero, total_weight)
        THEN [i \in DOMAIN ac |-> RDiv(weights[i], total_weight)]
        ELSE weights

\* A mode re-evaluation that balances over a single active interface.
AdjustAggregationMode_BalancesOne(ac) ==
    LET n == Cardinality({i \in DOMAIN ac : ac[i].active})
    IN  IF n = 0 THEN "failover" ELSE "load_balance"

\* _adjust_aggregation_mode: the new mode.
AdjustAggregationMode(ac) ==
    LET n == Cardinality({i \in DOMAIN ac : ac[i].active})
    IN  IF n = 0 THEN "failover" ELSE IF n = 1 THEN "failover" ELSE "load_balance"

\* _update_connection_status: the connection infos refreshed from the local node.
UpdateConnectionStatus(ac, node) ==
    [i \in DOMAIN ac |->
        IF i \in Range(node.connections)
        THEN [ac[i] EXCEPT !.bandwidth = Get(node.bandwidth, i, 0),
                           !.latency = Get(node.latency, i, 0),
                           !.data_cap = Get(node.data_caps, i, 0)]
        ELSE ac[i]]

\* Candidates drawn without the test for a positive weight.
WeightedCandidates_AnyWeight ==
    SelectSeq(ConnOrder, LAMBDA i : active_connections[i].active)

\* The interfaces _weighted_random_selection draws from, in iteration order.
WeightedCandidates ==
    SelectSeq(ConnOrder, LAMBDA i : active_connections[i].active
                                    /\ RLess(RZero, Get(connection_weights, i, RZero)))

RECURSIVE Cumulative(_, _)
\* The running sum of the normalized weights of the first k candidates.
Cumulative(norm, k) == IF k = 0 THEN RZero ELSE RAdd(Cumulative(norm, k - 1), norm[k])

\* _weighted_random_selection: the interfaces it can return, over every draw r
\* of np.random.random() in [0, 1). Candidate k is returned for the draws r with
\* cumulative(k-1) < r <= cumulative(k); the last one also when no k matched.
WeightedRandomSelection ==
    LET cand == WeightedCandidates
        weights == [k \in 1..Len(cand) |-> Get(connection_weights, cand[k], RZero)]
        total_weight == RSum(weights, [k \in 1..Len(cand) |-> k])
        norm == [k \in 1..Len(cand) |-> RDiv(weights[k], total_weight)]
    IN  IF cand = << >> THEN {None}
        ELSE IF total_weight = RZero THEN {cand[1]}
        ELSE {cand[k] : k \in {j \in 1..Len(cand) :
                    /\ RLess(Cumulative(norm, j - 1), ROne)
                    /\ \/ j = 1
                       \/ RLess(Cumulative(norm, j - 1), Cumulative(norm, j))}}
             \cup (IF RLess(Cumulative(norm, Len(cand)), ROne)
                   THEN {cand[Len(cand)]} ELSE {})

\* max(seq, key=...) of Python, key given as a function of the items: the first
\* item of the largest key.
PyMax(s, key) ==
    s[CHOOSE k \in 1..Len(s) :
        \A j \in 1..Len(s) : /\ key[s[j]] <= key[s[k]]
                             /\ (j < k => key[s[j]] < key[s[k]])]

\* A min that returns the last item of the smallest key.
PyMin_LastBest(s, key) ==
    s[CHOOSE k \in 1..Len(s) :
        \A j \in 1..Len(s) : /\ key[s[j]] >= key[s[k]]
                             /\ (j > k => key[s[j]] > key[s[k]])]

\* min(seq, key=...) of Python: the first item of the smallest key.
PyMin(s, key) ==
    s[CHOOSE k \in 1..Len(s) :
        \A j \in 1..Len(s) : /\ key[s[j]] >= key[s[k]]
                             /\ (j < k => key[s[j]] > key[s[k]])]

\* _adaptive_selection(packet_size): the interfaces it can return.
AdaptiveSelection(packet_size) ==
    LET active_interfaces == SelectSeq(ConnOrder, LAMBDA i : active_connections[i].active)
    IN  IF packet_size = 0 THEN WeightedRandomSelection
        ELSE IF active_interfaces = << >> THEN {None}
        ELSE IF packet_size > 1000
        THEN {PyMax(active_interfaces,
                    [i \in Range(active_interfaces) |-> active_connections[i].bandwidth])}
        ELSE {PyMin(active_interfaces,
                    [i \in Range(active_interfaces) |-> active_connections[i].latency])}

\* The failover branch of select_connection: the first active interface.
FirstActive ==
    LET active_interfaces == SelectSeq(ConnOrder, LAMBDA i : active_connections[i].active)
    IN  IF active_interfaces = << >> THEN None ELSE active_interfaces[1]

\* select_connection(packet_size): the values it can return.
SelectConnection(packet_size) ==
    IF DOMAIN active_connections = {} THEN {None}
    ELSE IF aggregation_mode = "failover" THEN {FirstActive}
    ELSE IF aggregation_mode = "load_balance" THEN WeightedRandomSelection
    ELSE IF aggregation_mode = "adaptive" THEN AdaptiveSelection(packet_size)
    ELSE {None}

-----------------------------------------------------------------------------
(* Link aggregator: operations *)

\* LinkAggregator.__init__, with max_queue_size as configured.
AggConstructed ==
    /\ max_queue_size \in 0..MaxQueueCfg
    /\ aggregation_mode = "load_balance"
    /\ active_connections = << >>
    /\ connection_weights = << >>
    /\ packet_queues = << >>
    /\ agg_running = FALSE
    /\ ret = RetNone

\* The connection infos initialize(local_node) builds.
InitialConnections(node) ==
    [i \in Range(node.connections) |->
        [bandwidth |-> Get(node.bandwidth, i, 0),
         latency |-> Get(node.latency, i, 0),
         data_cap |-> Get(node.data_caps, i, 0),
         active |-> TRUE,
         packet_count |-> 0,
         bytes_sent |-> 0]]

\* The queues initialize(local_node) builds.
InitialQueues(node) ==
    [i \in Range(node.connections) |-> [items |-> << >>, maxlen |-> max_queue_size]]

\* initialize(local_node): connection infos and queues for the node's
\* interfaces, then the initial weights.
Initialize ==
    /\ ~agg_running
    /\ ~WeightsRaise(InitialConnections(local_node))
    /\ active_connections' = InitialConnections(local_node)
    /\ connection_weights' =
            CalculateWeights(InitialConnections(local_node), local_node.connections)
    /\ packet_queues' = InitialQueues(local_node)
    /\ agg_running' = TRUE
    /\ UNCHANGED <<local_node, max_queue_size, aggregation_mode, ret, foVars, discVars>>

\* The aggregator once MeshManager._start_services has initialized it.
AggInitialized ==
    /\ max_queue_size = MaxQueueCfg
    /\ aggregation_mode = "load_balance"
    /\ active_connections = InitialConnections(local_node)
    /\ connection_weights =
            CalculateWeights(InitialConnections(local_node), local_node.connections)
    /\ packet_queues = InitialQueues(local_node)
    /\ agg_running = TRUE
    /\ ret = RetNone

\* optimize_aggregation(local_node, mesh_nodes): refresh the connection infos,
\* recompute the weights, re-evaluate the mode. An error is logged and swallowed.
OptimizeAggregation ==
    /\ agg_running
    /\ LET ac == UpdateConnectionStatus(active_connections, local_node)
       IN  /\ active_connections' = ac
           /\ IF WeightsRaise(ac)
              THEN UNCHANGED <<connection_weights, aggregation_mode>>
              ELSE /\ connection_weights' = CalculateWeights(ac, ConnOrder)
                   /\ aggregation_mode' = AdjustAggregationMode(ac)
    /\ UNCHANGED <<local_node, max_queue_size, packet_queues, agg_running, ret, foVars, discVars>>

\* The mode set by explicit configuration (the only way into adaptive).
ConfigureMode(m) ==
    /\ aggregation_mode' = m
    /\ UNCHANGED <<local_node, max_queue_size, active_connections, connection_weights,
                   packet_queues, agg_running, ret, foVars, discVars>>

RECURSIVE SumCounts(_, _)
SumCounts(ac, S) ==
    IF S = {} THEN 0
    ELSE LET i == CHOOSE x \in S : TRUE
         IN  ac[i].packet_count + SumCounts(ac, S \ {i})

\* The number of packets queued so far, over all interfaces.
PacketsSent == SumCounts(active_connections, DOMAIN active_connections)

\* A limit test that is off by one: a queue at max_queue_size is not seen as full.
QueueIsFull_OffByOne(interface) == Len(packet_queues[interface].items) > max_queue_size

\* The queue size limit test of queue_packet.
QueueIsFull(interface) == Len(packet_queues[interface].items) >= max_queue_size

\* A statistics update that counts a packet as one byte.
UpdateStatistics_OneByte(ac, interface, packet_data) ==
    IF interface \in DOMAIN ac
    THEN [ac EXCEPT ![interface].packet_count = @ + 1,
                    ![interface].bytes_sent = @ + 1]
    ELSE ac

\* The statistics update of queue_packet.
UpdateStatistics(ac, interface, packet_data) ==
    IF interface \in DOMAIN ac
    THEN [ac EXCEPT ![interface].packet_count = @ + 1,
                    ![interface].bytes_sent = @ + packet_data.len]
    ELSE ac

\* queue_packet(packet_data, interface): interface = None asks select_connection.
QueuePacket(packet_data, interface) ==
    \E sel \in (IF interface = None THEN SelectConnection(packet_data.len)
                ELSE {interface}) :
        IF sel = None \/ sel \notin DOMAIN packet_queues
        THEN /\ ret' = RetFalse
             /\ UNCHANGED <<local_node, max_queue_size, aggregation_mode,
                            active_connections, connection_weights, packet_queues,
                            agg_running, foVars, discVars>>
        ELSE IF QueueIsFull(sel)
        THEN /\ ret' = RetFalse
             /\ UNCHANGED <<local_node, max_queue_size, aggregation_mode,
                            active_connections, connection_weights, packet_queues,
                            agg_running, foVars, discVars>>
        ELSE /\ PacketsSent < MaxPackets
             /\ packet_queues' = [packet_queues EXCEPT
                                    ![sel] = DequeAppend(packet_queues[sel], packet_data)]
             /\ active_connections' = UpdateStatistics(active_connections, sel, packet_data)
             /\ ret' = RetTrue
             /\ UNCHANGED <<local_node, max_queue_size, aggregation_mode,
                            connection_weights, agg_running, foVars, discVars>>

\* get_packet_from_queue taking the newest payload (pop instead of popleft).
GetPacketFromQueue_Newest(interface) ==
    IF interface \notin DOMAIN packet_queues \/ packet_queues[interface].items = << >>
    THEN /\ ret' = RetNone
         /\ UNCHANGED <<local_node, max_queue_size, aggregation_mode, active_connections,
                        connection_weights, packet_queues, agg_running, foVars, discVars>>
    ELSE LET q == packet_queues[interface].items
         IN  /\ packet_queues' = [packet_queues EXCEPT
                                    ![interface].items = SubSeq(q, 1, Len(q) - 1)]
             /\ ret' = RetPayload(q[Len(q)])
             /\ UNCHANGED <<local_node, max_queue_size, aggregation_mode,
                            active_connections, connection_weights, agg_running,
                            foVars, discVars>>

\* get_packet_from_queue(interface): the oldest payload, or None.
GetPacketFromQueue(interface) ==
    IF interface \notin DOMAIN packet_queues \/ packet_queues[interface].items = << >>
    THEN /\ ret' = RetNone
         /\ UNCHANGED <<local_node, max_queue_size, aggregation_mode, active_connections,
                        connection_weights, packet_queues, agg_running, foVars, discVars>>
    ELSE /\ packet_queues' = [packet_queues EXCEPT ![interface].items = Tail(@)]
         /\ ret' = RetPayload(Head(packet_queues[interface].items))
         /\ UNCHANGED <<local_node, max_queue_size, aggregation_mode, active_connections,
                        connection_weights, agg_running, foVars, discVars>>

\* The monitoring loop's refresh of one interface of the local node record.
RefreshLocalNode(i, bw, lat) ==
    /\ i \in Range(local_node.connections)
    /\ local_node' = [local_node EXCEPT !.bandwidth[i] = bw,
                                        !.latency[i] = lat,
                                        !.data_caps[i] = GetDataCap(i)]
    /\ UNCHANGED <<aggVars, foVars, discVars>>

-----------------------------------------------------------------------------
(* Failover manager *)

\* failover_threshold: consecutive failures before failover.
failover_threshold == 3
\* recovery_threshold: consecutive successes before recovery.
recovery_threshold == 2
\* len(health_check_targets)
NumHealthCheckTargets == 2

EventTypes == {"connection_lost", "connection_restored", "manual_failover"}

\* The fields of the failover manager a health check reads and writes.
FoFields ==
    [failed |-> failed_interfaces, failure_counts |-> failure_counts,
     success_counts |-> success_counts, events |-> failover_events,
     primary |-> primary_interface]

\* _check_connection_health, given the number of targets whose ping succeeded.
CheckConnectionHealth(successes) == successes >= NumHealthCheckTargets \div 2 + 1

\* What the probe of one target does inside _check_connection_health: _ping_check
\* returns True, it returns False (the ping failed, or _ping_check caught an
\* error of its own), or an error is raised into _check_connection_health.
ProbeOutcomes == {"success", "failure", "raised"}

RECURSIVE SuccessCount(_)
\* success_count once the loop over the targets has run over these probes.
SuccessCount(probes) ==
    IF probes = << >> THEN 0
    ELSE (IF Head(probes) = "success" THEN 1 ELSE 0) + SuccessCount(Tail(probes))

\* A health check that is content with half of its targets.
CheckConnectionHealthOf_HalfIsEnough(probes) ==
    IF \E k \in DOMAIN probes : probes[k] = "raised" THEN FALSE
    ELSE SuccessCount(probes) >= Len(probes) \div 2

\* _check_connection_health over any list of targets, one probe per target: an
\* error raised by a probe ends in the except branch, which returns False.
CheckConnectionHealthOf(probes) ==
    IF \E k \in DOMAIN probes : probes[k] = "raised" THEN FALSE
    ELSE SuccessCount(probes) >= Len(probes) \div 2 + 1

\* No _check_connection_health call observed yet.
NoCall == [probes |-> << >>, called |-> FALSE, healthy |-> FALSE]

\* One call of _check_connection_health with a list of targets of its own,
\* observed with what it returned; the call changes no field.
CheckConnectionHealthCall(probes) ==
    /\ health_call' = [probes |-> probes, called |-> TRUE,
                       healthy |-> CheckConnectionHealthOf(probes)]
    /\ UNCHANGED <<local_node, aggVars, foVars, discVars, running, pc, cancel, to_merge,
                   tick_log, status, published, interfaces>>

\* A primary selection that takes the last available backup, not the first.
SelectNewPrimary_LastAvailable(st) ==
    LET available_interfaces == SelectSeq(backup_interfaces, LAMBDA i : i \notin st.failed)
    IN  [st EXCEPT !.primary = IF available_interfaces # << >>
                               THEN available_interfaces[Len(available_interfaces)]
                               ELSE None]

\* _select_new_primary: the first backup that is not failed, or None.
SelectNewPrimary(st) ==
    LET available_interfaces == SelectSeq(backup_interfaces, LAMBDA i : i \notin st.failed)
    IN  [st EXCEPT !.primary = IF available_interfaces # << >>
                               THEN available_interfaces[1] ELSE None]

\* A failover that does not return early for an interface already failed.
FailoverInterface_NoGuard(st, interface) ==
    LET st1 == [st EXCEPT
                    !.failed = @ \cup {interface},
                    !.events = Append(@, [event_type |-> "connection_lost",
                                          interface |-> interface])]
    IN  IF st1.primary = interface THEN SelectNewPrimary(st1) ELSE st1

\* A failover that leaves the primary where it was.
FailoverInterface_KeepsPrimary(st, interface) ==
    IF interface \in st.failed THEN st
    ELSE [st EXCEPT
            !.failed = @ \cup {interface},
            !.events = Append(@, [event_type |-> "connection_lost",
                                  interface |-> interface])]

\* _failover_interface
FailoverInterface(st, interface) ==
    IF interface \in st.failed THEN st
    ELSE LET st1 == [st EXCEPT
                        !.failed = @ \cup {interface},
                        !.events = Append(@, [event_type |-> "connection_lost",
                                              interface |-> interface])]
         IN  IF st1.primary = interface THEN SelectNewPrimary(st1) ELSE st1

\* _recover_interface
RecoverInterface(st, interface) ==
    IF interface \notin st.failed THEN st
    ELSE SelectNewPrimary(
            [st EXCEPT
                !.failed = @ \ {interface},
                !.failure_counts = Put(@, interface, 0),
                !.success_counts = Put(@, interface, 0),
                !.events = Append(@, [event_type |-> "connection_restored",
                                      interface |-> interface])])

\* A success handler that does not reset the failure count.
HandleConnectionSuccess_KeepsFailures(st, interface) ==
    LET st1 == [st EXCEPT
                    !.failure_counts = Put(@, interface, Get(@, interface, 0)),
                    !.success_counts = Put(@, interface, Get(@, interface, 0) + 1)]
    IN  IF interface \in st1.failed /\ st1.success_counts[interface] >= recovery_threshold
        THEN RecoverInterface(st1, interface)
        ELSE st1

\* _handle_connection_success
HandleConnectionSuccess(st, interface) ==
    LET st1 == [st EXCEPT
                    !.failure_counts = Put(@, interface, 0),
                    !.success_counts = Put(@, interface, Get(@, interface, 0) + 1)]
    IN  IF interface \in st1.failed /\ st1.success_counts[interface] >= recovery_threshold
        THEN RecoverInterface(st1, interface)
        ELSE st1

\* A failure handler whose threshold test is off by one (> for >=).
HandleConnectionFailure_OffByOne(st, interface) ==
    LET st1 == [st EXCEPT
                    !.success_counts = Put(@, interface, 0),
                    !.failure_counts = Put(@, interface, Get(@, interface, 0) + 1)]
    IN  IF st1.failure_counts[interface] > failover_threshold
        THEN FailoverInterface(st1, interface)
        ELSE st1

\* _handle_connection_failure
HandleConnectionFailure(st, interface) ==
    LET st1 == [st EXCEPT
                    !.success_counts = Put(@, interface, 0),
                    !.failure_counts = Put(@, interface, Get(@, interface, 0) + 1)]
    IN  IF st1.failure_counts[interface] >= failover_threshold
        THEN FailoverInterface(st1, interface)
        ELSE st1

RECURSIVE CheckEach(_, _, _)
\* The loop of check_failover_conditions over local_node.connections; pings[i]
\* is the number of health-check targets interface i reached.
CheckEach(st, connections, pings) ==
    IF connections = << >> THEN st
    ELSE LET interface == Head(connections)
             st1 == IF CheckConnectionHealth(pings[interface])
                    THEN HandleConnectionSuccess(st, interface)
                    ELSE HandleConnectionFailure(st, interface)
         IN  CheckEach(st1, Tail(connections), pings)

\* _update_system_state: the new state.
UpdateSystemState(failed, node) ==
    LET total_connections == Len(node.connections)
        failed_count == Cardinality(failed)
        active_conns == total_connections - failed_count
    IN  IF active_conns = 0 THEN "degraded"
        ELSE IF failed_count = 0 THEN "normal"
        ELSE IF active_conns = 1 THEN "monitoring"
        ELSE "normal"

\* _handle_state_transitions: the number of critical records it logs.
HandleStateTransitions(old_state, new_state) == IF new_state = "degraded" THEN 1 ELSE 0

\* FailoverManager.__init__
FoConstructed ==
    /\ fo_state = "normal"
    /\ primary_interface = None
    /\ backup_interfaces = << >>
    /\ failed_interfaces = {}
    /\ failure_counts = << >>
    /\ success_counts = << >>
    /\ failover_events = << >>
    /\ log_critical = 0
    /\ check_run = << >>
    /\ recovery_run = [i \in Names |-> 0]

\* The healthy checks each interface has had in a row as a member of the
\* failed set, after a tick with these pings: a healthy check of a failed
\* interface adds one, any other check starts over.
NextRecoveryRuns(pings) ==
    [i \in Names |->
        IF i \notin DOMAIN pings THEN recovery_run[i]
        ELSE IF i \in failed_interfaces /\ CheckConnectionHealth(pings[i])
        THEN recovery_run[i] + 1
        ELSE 0]

\* The runs of consecutive equal outcomes after a tick with these pings.
NextRuns(pings) ==
    [i \in DOMAIN check_run \cup DOMAIN pings |->
        IF i \notin DOMAIN pings THEN check_run[i]
        ELSE LET healthy == pings[i] >= NumHealthCheckTargets \div 2 + 1
             IN  IF i \in DOMAIN check_run /\ check_run[i].healthy = healthy
                 THEN [healthy |-> healthy, n |-> check_run[i].n + 1]
                 ELSE [healthy |-> healthy, n |-> 1]]

\* check_failover_conditions(local_node, mesh_nodes): one monitoring tick. The
\* monitoring loop sleeps monitoring_interval between two calls, so every
\* interface is due for its check in every tick.
\* A monitoring tick that checks nothing once the state is degraded.
CheckFailoverConditions_IdleWhenDegraded(pings) ==
    IF fo_state = "degraded"
    THEN UNCHANGED <<local_node, aggVars, foVars, discVars>>
    ELSE
    \E st \in {CheckEach(FoFields, local_node.connections, pings)} :
    \E new_state \in {UpdateSystemState(st.failed, local_node)} :
        /\ \A i \in DOMAIN st.failure_counts : st.failure_counts[i] <= MaxCount
        /\ \A i \in DOMAIN st.success_counts : st.success_counts[i] <= MaxCount
        /\ Len(st.events) <= MaxEvents
        /\ failed_interfaces' = st.failed
        /\ failure_counts' = st.failure_counts
        /\ success_counts' = st.success_counts
        /\ failover_events' = st.events
        /\ primary_interface' = st.primary
        /\ fo_state' = new_state
        /\ log_critical' = HandleStateTransitions(fo_state, new_state)
        /\ check_run' = NextRuns(pings)
        /\ \A i \in DOMAIN check_run' : check_run'[i].n <= MaxCount
        /\ recovery_run' = NextRecoveryRuns(pings)
        /\ \A i \in Names : recovery_run'[i] <= MaxCount
        /\ UNCHANGED <<local_node, aggVars, discVars, backup_interfaces>>

CheckFailoverConditions(pings) ==
    \E st \in {CheckEach(FoFields, local_node.connections, pings)} :
    \E new_state \in {UpdateSystemState(st.failed, local_node)} :
        /\ \A i \in DOMAIN st.failure_counts : st.failure_counts[i] <= MaxCount
        /\ \A i \in DOMAIN st.success_counts : st.success_counts[i] <= MaxCount
        /\ Len(st.events) <= MaxEvents
        /\ failed_interfaces' = st.failed
        /\ failure_counts' = st.failure_counts
        /\ success_counts' = st.success_counts
        /\ failover_events' = st.events
        /\ primary_interface' = st.primary
        /\ fo_state' = new_state
        /\ log_critical' = HandleStateTransitions(fo_state, new_state)
        /\ check_run' = NextRuns(pings)
        /\ \A i \in DOMAIN check_run' : check_run'[i].n <= MaxCount
        /\ recovery_run' = NextRecoveryRuns(pings)
        /\ \A i \in Names : recovery_run'[i] <= MaxCount
        /\ UNCHANGED <<local_node, aggVars, discVars, backup_interfaces>>

\* A manual failover that leaves the target interface in the failed set.
ManualFailoverFields_KeepsTarget(st, from_interface, to_interface) ==
    [st EXCEPT
        !.failed = @ \cup {from_interface},
        !.primary = to_interface,
        !.events = Append(@, [event_type |-> "manual_failover",
                              interface |-> from_interface])]

\* A manual failover that forces the failure of the source after the recovery
\* of the target.
ManualFailoverFields_FailsLast(st, from_interface, to_interface) ==
    [st EXCEPT
        !.failed = (@ \ {to_interface}) \cup {from_interface},
        !.primary = to_interface,
        !.events = Append(@, [event_type |-> "manual_failover",
                              interface |-> from_interface])]

\* The body of manual_failover: the fields after it. None of its statements
\* can raise, so it always returns True.
ManualFailoverFields(st, from_interface, to_interface) ==
    [st EXCEPT
        !.failed = (@ \cup {from_interface}) \ {to_interface},
        !.primary = to_interface,
        !.events = Append(@, [event_type |-> "manual_failover",
                              interface |-> from_interface])]

\* manual_failover(from_interface, to_interface)
ManualFailover(from_interface, to_interface) ==
    \E st \in {ManualFailoverFields(FoFields, from_interface, to_interface)} :
        /\ Len(failover_events) < MaxEvents
        /\ failed_interfaces' = st.failed
        /\ primary_interface' = st.primary
        /\ failover_events' = st.events
        /\ failure_counts' = st.failure_counts
        /\ success_counts' = st.success_counts
        /\ log_critical' = 0
        /\ check_run' = << >>
        /\ recovery_run' = [recovery_run EXCEPT
                                ![from_interface] = IF from_interface \in failed_interfaces
                                                    THEN @ ELSE 0,
                                ![to_interface] = 0]
        /\ UNCHANGED <<local_node, aggVars, discVars, fo_state, backup_interfaces>>

\* clear_failure_history()
ClearFailureHistory ==
    /\ failure_counts' = << >>
    /\ success_counts' = << >>
    /\ log_critical' = 0
    /\ check_run' = << >>
    /\ recovery_run' = recovery_run
    /\ UNCHANGED <<local_node, aggVars, discVars, fo_state, primary_interface, backup_interfaces,
                   failed_interfaces, failover_events>>

\* The manager after __init__ and its configuration by set_primary_interface
\* (or none) and set_backup_interfaces (or none).
FoConfigured ==
    /\ fo_state = "normal"
    /\ primary_interface \in {None, "eth0"}
    /\ backup_interfaces \in BackupChoices
    /\ failed_interfaces = {}
    /\ failure_counts = << >>
    /\ success_counts = << >>
    /\ failover_events = << >>
    /\ log_critical = 0
    /\ check_run = << >>
    /\ recovery_run = [i \in Names |-> 0]

-----------------------------------------------------------------------------
(* Node discovery: payloads *)

\* NodeDiscovery.__init__ and MeshManager.__init__: no node id yet, no peer.
DiscConstructed ==
    /\ node_id = None
    /\ mac_address = None
    /\ mesh_nodes = << >>
    /\ discovered_nodes = << >>
    /\ clock = 0

\* The loops of the Mesh Manager: the three service tasks and the main
\* operation loop of start().
TaskLoops == {"discovery", "monitoring", "optimization"}
Loops == TaskLoops \cup {"housekeeping"}

\* The value of status before any query.
NoStatus == [mesh_nodes |-> << >>, total_nodes |-> 0, running |-> FALSE]

\* What the measurement rounds of a local node record produced, per interface.
Measured(node) ==
    [i \in Range(node.connections) |->
        <<node.bandwidth[i], node.latency[i], node.data_caps[i]>>]

\* MeshManager.__init__: not running, no task created, start() not called,
\* nothing measured.
MgrConstructed ==
    /\ running = FALSE
    /\ pc = [l \in Loops |-> "idle"]
    /\ cancel = {}
    /\ to_merge = << >>
    /\ tick_log = << >>
    /\ status = NoStatus
    /\ published = << >>
    /\ interfaces = << >>
    /\ health_call = NoCall

\* NodeDiscovery.mesh_group
mesh_group == "MESH_NETWORK_GROUP"

\* required_fields of _validate_node_data
required_fields == {"node_id", "ip_address", "connections", "bandwidth", "latency"}

\* A Python value: its type and its content (a token; for the nested node_data
\* dict, the dict itself).
Py(type, content) == [t |-> type, v |-> content]

\* The Node records (MeshNode) that senders advertise. node-a is the local
\* node; node-b appears with two different sets of metrics.
SenderNodes ==
    { [node_id |-> "node-a", ip_address |-> "10.0.0.1", connections |-> "[eth0]",
       bandwidth |-> "{eth0: 100}", latency |-> "{eth0: 10}", data_caps |-> "{eth0: 0}"],
      [node_id |-> "node-b", ip_address |-> "10.0.0.2", connections |-> "[eth0, wlan0]",
       bandwidth |-> "{eth0: 100, wlan0: 50}", latency |-> "{eth0: 10, wlan0: 25}",
       data_caps |-> "{eth0: 0, wlan0: 0}"],
      [node_id |-> "node-b", ip_address |-> "10.0.0.9", connections |-> "[wlan0]",
       bandwidth |-> "{wlan0: 50}", latency |-> "{wlan0: 25}", data_caps |-> "{wlan0: 0}"],
      [node_id |-> "node-c", ip_address |-> "10.0.0.3", connections |-> "[eth0]",
       bandwidth |-> "{eth0: 100}", latency |-> "{eth0: 10}", data_caps |-> "{eth0: 0}"] }

\* json.dumps and json.loads map the types of the values: str <-> string,
\* list <-> array, dict <-> object, float <-> number, None <-> null.
JsonType(t) ==
    CASE t = "str" -> "string" [] t = "list" -> "array" [] t = "dict" -> "object"
      [] t = "float" -> "number" [] t = "NoneType" -> "null"

PyType(t) ==
    CASE t = "string" -> "str" [] t = "array" -> "list" [] t = "object" -> "dict"
      [] t = "number" -> "float" [] t = "null" -> "NoneType"

\* json.dumps of a dict: the text of a JSON object, given by its members.
\* A JSON text is [kind, members, has]: members are those of an object; has
\* holds the names n for which `n in value` is true of the decoded value (the
\* keys of an object, the strings in an array, the substrings of a string).
JsonDumps(d) ==
    [kind |-> "object",
     members |-> [k \in DOMAIN d |-> [t |-> JsonType(d[k].t), v |-> d[k].v]],
     has |-> DOMAIN d]

\* json.loads of a JSON text (not called on text that is not JSON, for which
\* it raises JSONDecodeError): the Python value [type, items, has].
JsonLoads(text) ==
    [type |-> PyType(text.kind),
     items |-> [k \in DOMAIN text.members |->
                    [t |-> PyType(text.members[k].t), v |-> text.members[k].v]],
     has |-> text.has]

\* advertisement_data of advertise_node(node)
AdvertisementData(node) ==
    [node_id |-> Py("str", node.node_id),
     ip_address |-> Py("str", node.ip_address),
     connections |-> Py("list", node.connections),
     bandwidth |-> Py("dict", node.bandwidth),
     latency |-> Py("dict", node.latency),
     data_caps |-> Py("dict", node.data_caps),
     timestamp |-> Py("float", "time")]

\* _send_advertisement(node_data): the payload of the datagram it broadcasts.
SendAdvertisement(node_data) ==
    JsonDumps([type |-> Py("str", "NODE_ADVERTISEMENT"),
               node_data |-> Py("dict", node_data),
               group |-> Py("str", mesh_group),
               timestamp |-> Py("float", "time")])

\* advertise_node(node): the payload it broadcasts.
AdvertiseNode(node) == SendAdvertisement(AdvertisementData(node))

\* _send_discovery_broadcast of a node whose id is id: the payload it broadcasts.
SendDiscoveryBroadcast(id) ==
    JsonDumps([type |-> Py("str", "DISCOVERY_REQUEST"),
               node_id |-> IF id = None THEN Py("NoneType", "null") ELSE Py("str", id),
               group |-> Py("str", mesh_group),
               timestamp |-> Py("float", "time")])

\* Payloads of other senders on the discovery port: the five required fields
\* of a Node record as the members of the payload itself, with more members or not.
FlatPayload(node, more) ==
    JsonDumps([k \in required_fields \cup DOMAIN more |->
                    IF k \in DOMAIN more THEN more[k] ELSE AdvertisementData(node)[k]])

\* A JSON text that is not an object; one that is not JSON at all.
NotAnObject(kind, has) == [kind |-> kind, members |-> << >>, has |-> has]
NotJson == [kind |-> "garbage", members |-> << >>, has |-> {}]

\* The payload without one of its members; with one member of another type.
Without(text, k) ==
    [text EXCEPT !.members = [j \in DOMAIN text.members \ {k} |-> text.members[j]],
                 !.has = @ \ {k}]
Retyped(text, k, type) == [text EXCEPT !.members[k] = [t |-> type, v |-> "x"]]

NodeB == CHOOSE n \in SenderNodes : n.node_id = "node-b" /\ n.ip_address = "10.0.0.2"

WellFormedPayloads ==
    {AdvertiseNode(n) : n \in SenderNodes}
    \cup {SendDiscoveryBroadcast(id) : id \in {None, "node-a", "node-b"}}
    \cup {FlatPayload(n, << >>) : n \in SenderNodes}
    \cup {FlatPayload(n, [group |-> Py("str", g)]) :
            n \in SenderNodes, g \in {mesh_group, "OTHER_GROUP"}}
    \cup {FlatPayload(n, [data_caps |-> AdvertisementData(n).data_caps,
                          group |-> Py("str", mesh_group)]) : n \in SenderNodes}

MalformedPayloads ==
    {Without(FlatPayload(NodeB, << >>), k) : k \in required_fields}
    \cup {Retyped(FlatPayload(NodeB, << >>), k, type) :
            k \in required_fields, type \in {"string", "array", "object", "number", "null"}}
    \cup {NotAnObject(kind, has) : kind \in {"array", "string"},
                                   has \in {{}, required_fields}}
    \cup {NotAnObject(kind, {}) : kind \in {"number", "null"}}
    \cup {NotJson}

\* The payloads a listen window can capture.
Datagrams == WellFormedPayloads \cup MalformedPayloads

-----------------------------------------------------------------------------
(* Node discovery: operations *)

\* node_data.get('node_id') == self.node_id
IsOwnId(value, own_id) ==
    IF own_id = None THEN value.t = "NoneType"
    ELSE value.t = "str" /\ value.v = own_id

\* A validation without the test for the node's own id.
ValidateNodeData_AcceptsOwnId(node_data, own_id) ==
    IF node_data.type \in {"float", "NoneType"} THEN "TypeError"
    ELSE IF ~(required_fields \subseteq node_data.has) THEN "False"
    ELSE IF node_data.type # "dict" THEN "AttributeError"
    ELSE IF /\ node_data.items["node_id"].t = "str"
            /\ node_data.items["ip_address"].t = "str"
            /\ node_data.items["connections"].t = "list"
            /\ node_data.items["bandwidth"].t = "dict"
            /\ node_data.items["latency"].t = "dict"
         THEN "True"
    ELSE "False"

\* _validate_node_data(node_data) of the node whose id is own_id: "True",
\* "False", or the exception it raises. `field in node_data` raises TypeError
\* on a number or None; node_data.get raises AttributeError on a list or str.
ValidateNodeData(node_data, own_id) ==
    IF node_data.type \in {"float", "NoneType"} THEN "TypeError"
    ELSE IF ~(required_fields \subseteq node_data.has) THEN "False"
    ELSE IF node_data.type # "dict" THEN "AttributeError"
    ELSE IF IsOwnId(node_data.items["node_id"], own_id) THEN "False"
    ELSE IF /\ node_data.items["node_id"].t = "str"
            /\ node_data.items["ip_address"].t = "str"
            /\ node_data.items["connections"].t = "list"
            /\ node_data.items["bandwidth"].t = "dict"
            /\ node_data.items["latency"].t = "dict"
         THEN "True"
    ELSE "False"

RECURSIVE ParseResponses(_, _, _)
\* The loop of discover_nodes over the responses: text that is not JSON is
\* skipped with a warning; any other exception leaves the loop and
\* discover_nodes returns what it had accepted so far.
ParseResponses(responses, own_id, accepted) ==
    IF responses = << >> THEN accepted
    ELSE IF Head(responses).kind = "garbage"
    THEN ParseResponses(Tail(responses), own_id, accepted)
    ELSE LET node_data == JsonLoads(Head(responses))
             valid == ValidateNodeData(node_data, own_id)
         IN  IF valid = "True"
             THEN ParseResponses(Tail(responses), own_id, Append(accepted, node_data))
             ELSE IF valid = "False"
             THEN ParseResponses(Tail(responses), own_id, accepted)
             ELSE accepted

\* discover_nodes(): what it returns; io_ok is false when sending the request
\* or listening raised.
DiscoverNodes(io_ok, responses, own_id) ==
    IF io_ok THEN ParseResponses(responses, own_id, << >>) ELSE << >>

\* stale_threshold of _cleanup_stale_nodes, in seconds
stale_threshold == 60

\* The merge loop's body with the fields of a known peer overwritten one group
\* at a time: its metrics by this payload, its address and interfaces not.
MergeOne_OverwritesMetrics(nodes, received, t) ==
    LET node_data == received.items
        id == node_data["node_id"].v
        node == [node_id |-> node_data["node_id"],
                 ip_address |-> node_data["ip_address"],
                 connections |-> node_data["connections"],
                 bandwidth |-> node_data["bandwidth"],
                 latency |-> node_data["latency"],
                 last_seen |-> t,
                 data_caps |-> IF "data_caps" \in DOMAIN node_data
                               THEN node_data["data_caps"]
                               ELSE Py("dict", "{}")]
    IN  IF id \notin DOMAIN nodes
        THEN [k \in DOMAIN nodes \cup {id} |-> IF k = id THEN node ELSE nodes[k]]
        ELSE [nodes EXCEPT ![id].last_seen = t,
                           ![id].bandwidth = node.bandwidth,
                           ![id].latency = node.latency]

\* The body of the merge loop of _run_node_discovery for one returned payload,
\* at time.time() = t: a new id gets a record built from the payload and stored
\* whole; a known id has its last_seen set.
\* A merge that replaces the record of a node it already knows.
MergeOne_ReplacesRecord(nodes, received, t) ==
    LET node_data == received.items
        id == node_data["node_id"].v
        node == [node_id |-> node_data["node_id"],
                 ip_address |-> node_data["ip_address"],
                 connections |-> node_data["connections"],
                 bandwidth |-> node_data["bandwidth"],
                 latency |-> node_data["latency"],
                 last_seen |-> t,
                 data_caps |-> IF "data_caps" \in DOMAIN node_data
                               THEN node_data["data_caps"]
                               ELSE Py("dict", "{}")]
    IN  [k \in DOMAIN nodes \cup {id} |-> IF k = id THEN node ELSE nodes[k]]

MergeOne(nodes, received, t) ==
    LET node_data == received.items
        id == node_data["node_id"].v
        node == [node_id |-> node_data["node_id"],
                 ip_address |-> node_data["ip_address"],
                 connections |-> node_data["connections"],
                 bandwidth |-> node_data["bandwidth"],
                 latency |-> node_data["latency"],
                 last_seen |-> t,
                 data_caps |-> IF "data_caps" \in DOMAIN node_data
                               THEN node_data["data_caps"]
                               ELSE Py("dict", "{}")]
    IN  IF id \notin DOMAIN nodes
        THEN [k \in DOMAIN nodes \cup {id} |-> IF k = id THEN node ELSE nodes[k]]
        ELSE [nodes EXCEPT ![id].last_seen = t]

RECURSIVE MergeNodes(_, _, _)
\* The loop of _run_node_discovery over the discovered nodes, at time t: a new
\* node_id gets a MeshNode built from the payload, a known one a new last_seen.
MergeNodes(nodes, discovered, t) ==
    IF discovered = << >> THEN nodes
    ELSE MergeNodes(MergeOne(nodes, Head(discovered), t), Tail(discovered), t)

\* A cleanup that also removes the nodes seen exactly stale_threshold ago.
CleanupStaleNodes_AtThreshold(nodes, current_time) ==
    LET stale_nodes == {id \in DOMAIN nodes :
                            current_time - nodes[id].last_seen >= stale_threshold}
    IN  [id \in DOMAIN nodes \ stale_nodes |-> nodes[id]]

\* _cleanup_stale_nodes at time current_time
CleanupStaleNodes(nodes, current_time) ==
    LET stale_nodes == {id \in DOMAIN nodes :
                            current_time - nodes[id].last_seen > stale_threshold}
    IN  [id \in DOMAIN nodes \ stale_nodes |-> nodes[id]]

\* The local node has been initialized: generate_node_id has run.
DiscStarted ==
    /\ node_id = "node-a"
    /\ mac_address = "mac-1"
    /\ mesh_nodes = << >>
    /\ discovered_nodes = << >>
    /\ clock = 0

\* The host names socket.gethostname() may report and the hardware addresses
\* the default interface may have, at different moments.
Hostnames == {"host-1", "host-2"}
HardwareAddresses == {"mac-1", "mac-2"}

\* The address get_mac_address falls back to when the lookup fails.
DefaultMac == "00:00:00:00:00:00"

\* str(uuid.uuid5(NAMESPACE_DNS, f"{hostname}-{mac}")): a different string for
\* each different name; the started node of the discovery ticks is node-a.
Uuid5(hostname, mac) ==
    IF hostname = "host-1" /\ mac = "mac-1" THEN "node-a"
    ELSE "uuid5(" \o hostname \o "-" \o mac \o ")"

\* get_mac_address: the cached address, or the address looked up now
\* (lookup_ok) or the default one (lookup failed), which it caches.
GetMacAddress(cached, hwaddr, lookup_ok) ==
    IF cached # None THEN cached
    ELSE IF lookup_ok THEN hwaddr ELSE DefaultMac

\* generate_node_id without the cache test: the id is computed on every call.
GenerateNodeIdFields_Recomputes(id, cached, hostname, hwaddr, lookup_ok) ==
    LET mac == GetMacAddress(cached, hwaddr, lookup_ok)
    IN  [node_id |-> Uuid5(hostname, mac), mac_address |-> mac,
         result |-> Uuid5(hostname, mac)]

\* generate_node_id with self.node_id = id and self.mac_address = cached, on a
\* host named hostname whose hardware address is hwaddr: the fields it leaves
\* and the value it returns.
GenerateNodeIdFields(id, cached, hostname, hwaddr, lookup_ok) ==
    IF id = None
    THEN LET mac == GetMacAddress(cached, hwaddr, lookup_ok)
         IN  [node_id |-> Uuid5(hostname, mac), mac_address |-> mac,
              result |-> Uuid5(hostname, mac)]
    ELSE [node_id |-> id, mac_address |-> cached, result |-> id]

GenerateNodeId(hostname, hwaddr, lookup_ok) ==
    LET st == GenerateNodeIdFields(node_id, mac_address, hostname, hwaddr, lookup_ok)
    IN  /\ node_id' = st.node_id
        /\ mac_address' = st.mac_address
        /\ UNCHANGED <<local_node, aggVars, foVars, mesh_nodes, discovered_nodes, clock>>

\* One tick of _run_node_discovery, delay seconds after the previous one:
\* discover_nodes (which catches its own errors), the merge into mesh_nodes at
\* time.time(), advertise_node (which catches its own errors), and lag seconds
\* after the merge the stale cleanup. No statement of the tick's try block
\* raises on payloads that discover_nodes returned.
RunNodeDiscovery(io_ok, responses, delay, lag) ==
    LET t == clock + delay
        found == DiscoverNodes(io_ok, responses, node_id)
    IN  /\ node_id # None
        /\ io_ok \/ responses = << >>
        /\ t + lag <= MaxTime
        /\ discovered_nodes' = found
        /\ mesh_nodes' = CleanupStaleNodes(MergeNodes(mesh_nodes, found, t), t + lag)
        /\ clock' = t + lag
        /\ UNCHANGED <<local_node, aggVars, foVars, node_id, mac_address>>

-----------------------------------------------------------------------------
(* Mesh Manager: the discovery loop step by step, and the status query *)

\* The steps of one loop never overlap, and a step of another coroutine or a
\* status query may come between any two of them: this includes every
\* interleaving the event loop produces, which switches coroutines only where
\* one is suspended (in the listen window and in asyncio.sleep).

\* An entry of tick_log: a datagram handed to sendp, or another step of the tick.
NoDatagram == [kind |-> "none", members |-> << >>, has |-> {}]
Sent(text) == [op |-> "broadcast", datagram |-> text]
Did(op) == [op |-> op, datagram |-> NoDatagram]

\* The local node record as advertise_node reads it.
housekeeping == "housekeeping"

\* A scheduler that runs the tasks at any moment, as threads would be.
Yielded_Anywhere == TRUE

\* Cooperative scheduling: a task, or a call from another coroutine, runs only
\* while start() is suspended. Between the creation of the tasks and the end
\* of link_aggregator.initialize, which awaits nothing that suspends, it is not.
Yielded == pc[housekeeping] # "services"

LocalMeshNode ==
    [(CHOOSE n \in SenderNodes : n.node_id = "node-a") EXCEPT !.node_id = node_id]

\* _run_node_discovery from the head of its loop (the task's first run, or
\* the end of asyncio.sleep(5)), delay seconds after the previous tick's
\* cleanup, to the listen window: the loop ends when running is false; else
\* discover_nodes calls _send_discovery_broadcast, and when sendp raises
\* (send_ok false) it returns [] without listening.
DiscBegin(send_ok, delay) ==
    /\ pc["discovery"] \in {"ready", "sleep", "failed"}
    /\ "discovery" \notin cancel
    /\ Yielded
    /\ IF ~running
       THEN /\ pc' = [pc EXCEPT !["discovery"] = "done"]
            /\ UNCHANGED <<tick_log, to_merge, discovered_nodes, clock>>
       ELSE /\ clock + delay <= MaxTime
            /\ clock' = clock + delay
            /\ tick_log' = <<Sent(SendDiscoveryBroadcast(node_id))>>
            /\ IF send_ok
               THEN /\ pc' = [pc EXCEPT !["discovery"] = "listen"]
                    /\ UNCHANGED <<to_merge, discovered_nodes>>
               ELSE /\ pc' = [pc EXCEPT !["discovery"] = "merge"]
                    /\ discovered_nodes' = << >>
                    /\ to_merge' = << >>
    /\ UNCHANGED <<local_node, aggVars, foVars, node_id, mac_address, mesh_nodes,
                   running, cancel, status, published,
                   interfaces, health_call>>

\* The end of the listen window: discover_nodes parses what was captured
\* (listen_ok false when listening raised) and returns; the merge loop starts.
DiscListen(listen_ok, responses) ==
    /\ pc["discovery"] = "listen"
    /\ "discovery" \notin cancel
    /\ listen_ok \/ responses = << >>
    /\ discovered_nodes' = DiscoverNodes(listen_ok, responses, node_id)
    /\ to_merge' = discovered_nodes'
    /\ tick_log' = Append(tick_log, Did("listen"))
    /\ pc' = [pc EXCEPT !["discovery"] = "merge"]
    /\ UNCHANGED <<local_node, aggVars, foVars, node_id, mac_address, mesh_nodes,
                   clock, running, cancel, status, published,
                   interfaces, health_call>>

\* One pass of the merge loop's body.
DiscMergeOne ==
    /\ pc["discovery"] = "merge"
    /\ to_merge # << >>
    /\ mesh_nodes' = MergeOne(mesh_nodes, Head(to_merge), clock)
    /\ to_merge' = Tail(to_merge)
    /\ tick_log' = Append(tick_log, Did("merge"))
    /\ UNCHANGED <<local_node, aggVars, foVars, node_id, mac_address,
                   discovered_nodes, clock, running, pc, cancel, status, published,
                   interfaces, health_call>>

\* An advertisement step that advertises only when the tick discovered a peer.
DiscAdvertise_OnlyWithPeers ==
    /\ pc["discovery"] = "merge"
    /\ to_merge = << >>
    /\ tick_log' = IF discovered_nodes # << >>
                   THEN Append(tick_log, Sent(AdvertiseNode(LocalMeshNode)))
                   ELSE tick_log
    /\ pc' = [pc EXCEPT !["discovery"] = "cleanup"]
    /\ UNCHANGED <<local_node, aggVars, foVars, discVars, running, cancel,
                   to_merge, status, published,
                   interfaces, health_call>>

\* After the merge loop: advertise_node(self.local_node) hands one
\* NODE_ADVERTISEMENT datagram to sendp, and catches what sendp raises.
DiscAdvertise ==
    /\ pc["discovery"] = "merge"
    /\ to_merge = << >>
    /\ tick_log' = Append(tick_log, Sent(AdvertiseNode(LocalMeshNode)))
    /\ pc' = [pc EXCEPT !["discovery"] = "cleanup"]
    /\ UNCHANGED <<local_node, aggVars, foVars, discVars, running, cancel,
                   to_merge, status, published,
                   interfaces, health_call>>

\* _cleanup_stale_nodes, lag seconds after the merge, then asyncio.sleep(5).
DiscCleanup(lag) ==
    /\ pc["discovery"] = "cleanup"
    /\ clock + lag <= MaxTime
    /\ mesh_nodes' = CleanupStaleNodes(mesh_nodes, clock + lag)
    /\ clock' = clock + lag
    /\ tick_log' = Append(tick_log, Did("cleanup"))
    /\ pc' = [pc EXCEPT !["discovery"] = "sleep"]
    /\ UNCHANGED <<local_node, aggVars, foVars, node_id, mac_address,
                   discovered_nodes, running, cancel, to_merge, status, published,
                   interfaces, health_call>>

\* get_mesh_status(): the peer table, the node count and the running flag.
GetMeshStatus ==
    /\ status' = [mesh_nodes |-> mesh_nodes,
                  total_nodes |-> Cardinality(DOMAIN mesh_nodes) + 1,
                  running |-> running]
    /\ UNCHANGED <<local_node, aggVars, foVars, discVars, running, pc, cancel,
                   to_merge, tick_log, published,
                   interfaces, health_call>>

-----------------------------------------------------------------------------
(* Mesh Manager: start, stop and the four loops *)

\* The positions of a loop inside a tick, and those at which its coroutine is
\* suspended (where a cancellation is delivered). "ready" is a task created
\* and not yet run, "sleep" the asyncio.sleep after a tick, "failed" the same
\* sleep after a tick whose error the loop's except clause logged.
InTick(l) ==
    CASE l = "discovery" -> {"listen", "merge", "cleanup"}
      [] l = "monitoring" -> {"measure", "health"}
      [] l = "optimization" -> {"optimize"}
      [] l = housekeeping -> {"main"}

Resting == {"ready", "sleep", "failed"}
Suspended(l) == Resting \cup (InTick(l) \cap {"listen", "measure", "health"})

\* stop(): running = False, and cancel() on each task that exists and is not
\* done. (connection_manager.cleanup() touches nothing of this model.)
StopCancel == cancel \cup {l \in TaskLoops : pc[l] \notin {"idle", "done"}}

\* stop() called from outside start(), at any moment.
Stop ==
    /\ Yielded
    /\ running' = FALSE
    /\ cancel' = StopCancel
    /\ UNCHANGED <<local_node, aggVars, foVars, discVars, pc, to_merge, tick_log, status, published,
                   interfaces, health_call>>

\* start() up to the awaits of _initialize_local_node.
StartInit(hostname, hwaddr, lookup_ok) ==
    /\ pc[housekeeping] = "idle"
    /\ running' = TRUE
    /\ GenerateNodeId(hostname, hwaddr, lookup_ok)
    /\ pc' = [pc EXCEPT ![housekeeping] = "init"]
    /\ UNCHANGED <<cancel, to_merge, tick_log, status, published,
                   interfaces, health_call>>

\* MeshManager.local_node before _initialize_local_node has built the record
\* (None in the program): the record without interfaces or measurements.
NoLocalNode ==
    [connections |-> << >>, bandwidth |-> << >>, latency |-> << >>, data_caps |-> << >>]

\* The end of _initialize_local_node (the record, built from the interfaces
\* and their first measurements, is stored) and the head of _start_services:
\* the three tasks are created.
CreateTasks(node) ==
    /\ pc[housekeeping] = "init"
    /\ local_node' = node
    /\ published' = Measured(node)
    /\ pc' = [l \in Loops |-> IF l \in TaskLoops THEN "ready" ELSE "services"]
    /\ UNCHANGED <<aggVars, foVars, discVars, running, cancel, to_merge, tick_log, status,
                   interfaces, health_call>>

\* The rest of _start_services (the aggregator is initialized against the
\* local node) and the first test of the main loop: into _main_loop, or, when
\* stop() was called in the meantime, out of the loop and through the finally
\* clause.
StartServices ==
    /\ pc[housekeeping] = "services"
    /\ Initialize
    /\ IF running
       THEN /\ pc' = [pc EXCEPT ![housekeeping] = "main"]
            /\ UNCHANGED <<running, cancel>>
       ELSE /\ pc' = [pc EXCEPT ![housekeeping] = "done"]
            /\ running' = FALSE
            /\ cancel' = StopCancel
    /\ UNCHANGED <<to_merge, tick_log, status, published,
                   interfaces, health_call>>

\* A main loop that never tests running.
HkBegin_IgnoresRunning ==
    /\ pc[housekeeping] = "sleep"
    /\ pc' = [pc EXCEPT ![housekeeping] = "main"]
    /\ UNCHANGED <<local_node, aggVars, foVars, discVars, running, cancel,
                   to_merge, tick_log, status, published,
                   interfaces, health_call>>

\* The main loop of start() after asyncio.sleep(1): the next _main_loop, or,
\* running being false, the end of the loop and stop() in the finally clause.
HkBegin ==
    /\ pc[housekeeping] = "sleep"
    /\ IF running
       THEN /\ pc' = [pc EXCEPT ![housekeeping] = "main"]
            /\ UNCHANGED <<running, cancel>>
       ELSE /\ pc' = [pc EXCEPT ![housekeeping] = "done"]
            /\ running' = FALSE
            /\ cancel' = StopCancel
    /\ UNCHANGED <<local_node, aggVars, foVars, discVars, to_merge, tick_log, status, published,
                   interfaces, health_call>>

\* _main_loop returns; asyncio.sleep(1).
HkEnd ==
    /\ pc[housekeeping] = "main"
    /\ pc' = [pc EXCEPT ![housekeeping] = "sleep"]
    /\ UNCHANGED <<local_node, aggVars, foVars, discVars, running, cancel,
                   to_merge, tick_log, status, published,
                   interfaces, health_call>>

\* _main_loop raises: start() logs, re-raises, and its finally clause calls stop().
HkFail ==
    /\ pc[housekeeping] = "main"
    /\ pc' = [pc EXCEPT ![housekeeping] = "done"]
    /\ running' = FALSE
    /\ cancel' = StopCancel
    /\ UNCHANGED <<local_node, aggVars, foVars, discVars, to_merge, tick_log, status, published,
                   interfaces, health_call>>

\* _run_monitoring from the head of its loop to the first await that suspends
\* it: the loop ends when running is false; else measure_bandwidth, which
\* awaits nothing that suspends, returns bw, the bandwidth of the (first)
\* interface is written into the local node record, and the coroutine waits
\* for the ping of measure_latency.
MonBegin(bw) ==
    /\ pc["monitoring"] \in Resting
    /\ "monitoring" \notin cancel
    /\ Yielded
    /\ IF ~running
       THEN /\ pc' = [pc EXCEPT !["monitoring"] = "done"]
            /\ UNCHANGED local_node
       ELSE IF local_node.connections = << >>
       THEN /\ pc' = [pc EXCEPT !["monitoring"] = "health"]
            /\ UNCHANGED local_node
       ELSE /\ pc' = [pc EXCEPT !["monitoring"] = "measure"]
            /\ local_node' = [local_node EXCEPT !.bandwidth[local_node.connections[1]] = bw]
    /\ UNCHANGED <<aggVars, foVars, discVars, running, cancel,
                   to_merge, tick_log, status, published,
                   interfaces, health_call>>

\* measure_latency returns lat: the latency and the data cap (get_data_cap
\* awaits nothing that suspends) of the interface are written, and
\* monitor_connections runs, which changes nothing of this model; the
\* coroutine then waits for the probes of check_failover_conditions. (Local
\* nodes with one interface: the round of a second interface would follow.)
MonMeasure(lat) ==
    /\ pc["monitoring"] = "measure"
    /\ "monitoring" \notin cancel
    /\ Len(local_node.connections) = 1
    /\ local_node' = [local_node EXCEPT
                        !.latency[local_node.connections[1]] = lat,
                        !.data_caps[local_node.connections[1]] =
                            GetDataCap(local_node.connections[1])]
    /\ published' = [published EXCEPT ![local_node.connections[1]] =
                        <<local_node.bandwidth[local_node.connections[1]], lat,
                          GetDataCap(local_node.connections[1])>>]
    /\ pc' = [pc EXCEPT !["monitoring"] = "health"]
    /\ UNCHANGED <<aggVars, foVars, discVars, running, cancel, to_merge, tick_log, status,
                   interfaces, health_call>>

\* check_failover_conditions, then asyncio.sleep(10).
MonHealth(pings) ==
    /\ pc["monitoring"] = "health"
    /\ "monitoring" \notin cancel
    /\ CheckFailoverConditions(pings)
    /\ pc' = [pc EXCEPT !["monitoring"] = "sleep"]
    /\ UNCHANGED <<running, cancel, to_merge, tick_log, status, published,
                   interfaces, health_call>>

\* _run_optimization from the head of its loop into its tick.
OptBegin ==
    /\ pc["optimization"] \in Resting
    /\ "optimization" \notin cancel
    /\ Yielded
    /\ pc' = [pc EXCEPT !["optimization"] = IF running THEN "optimize" ELSE "done"]
    /\ UNCHANGED <<local_node, aggVars, foVars, discVars, running, cancel,
                   to_merge, tick_log, status, published,
                   interfaces, health_call>>

\* optimize_aggregation and _update_routing, then asyncio.sleep(30).
OptRun ==
    /\ pc["optimization"] = "optimize"
    /\ OptimizeAggregation
    /\ pc' = [pc EXCEPT !["optimization"] = "sleep"]
    /\ UNCHANGED <<running, cancel, to_merge, tick_log, status, published,
                   interfaces, health_call>>

\* An error in a tick that ends the loop, as if no except clause caught it.
TickFail_EndsLoop(l) ==
    /\ l \in TaskLoops
    /\ pc[l] \in InTick(l) \ {"listen"}
    /\ pc' = [pc EXCEPT ![l] = "done"]
    /\ UNCHANGED <<local_node, aggVars, foVars, discVars, running, cancel,
                   to_merge, tick_log, status, published,
                   interfaces, health_call>>

\* An unexpected error (an Exception) raised in the try block of loop l: the
\* except clause logs it and the loop goes on to its sleep. (What
\* discover_nodes raises in its listen window it catches itself.)
TickFail(l) ==
    /\ l \in TaskLoops
    /\ pc[l] \in InTick(l) \ {"listen"}
    /\ pc' = [pc EXCEPT ![l] = "failed"]
    /\ UNCHANGED <<local_node, aggVars, foVars, discVars, running, cancel,
                   to_merge, tick_log, status, published,
                   interfaces, health_call>>

\* The cancellation of task l is delivered where its coroutine is suspended:
\* CancelledError, which is no Exception, passes the except clauses and ends
\* the task.
Cancelled(l) ==
    /\ l \in cancel
    /\ pc[l] \in Suspended(l)
    /\ Yielded
    /\ pc' = [pc EXCEPT ![l] = "done"]
    /\ cancel' = cancel \ {l}
    /\ UNCHANGED <<local_node, aggVars, foVars, discVars, running, to_merge,
                   tick_log, status, published,
                   interfaces, health_call>>

-----------------------------------------------------------------------------
(* Specifications *)

\* The aggregator's weights, mode and selection against a local node whose
\* metrics the monitoring loop refreshes.
InitAgg ==
    /\ local_node \in LocalNodes
    /\ AggConstructed /\ max_queue_size = MaxQueueCfg
    /\ FoConstructed
    /\ DiscConstructed
    /\ MgrConstructed

NextAgg ==
    \/ Initialize /\ UNCHANGED mgrVars
    \/ OptimizeAggregation /\ UNCHANGED mgrVars
    \/ \E m \in Modes : ConfigureMode(m) /\ UNCHANGED mgrVars
    \/ \E i \in Names, lat \in LatencyValues :
            \E bw \in MeasureBandwidth(i) : RefreshLocalNode(i, bw, lat) /\ UNCHANGED mgrVars

SpecAgg == InitAgg /\ [][NextAgg]_vars

\* The aggregator's send queues, for each configured max_queue_size.
InitQueue ==
    /\ local_node \in QueueNodes
    /\ AggConstructed /\ max_queue_size >= 1
    /\ FoConstructed
    /\ DiscConstructed
    /\ MgrConstructed

NextQueue ==
    \/ Initialize /\ UNCHANGED mgrVars
    \/ OptimizeAggregation /\ UNCHANGED mgrVars
    \/ \E m \in Modes : ConfigureMode(m) /\ UNCHANGED mgrVars
    \/ \E p \in Payloads, i \in Names \cup {None} : QueuePacket(p, i) /\ UNCHANGED mgrVars
    \/ \E i \in Names : GetPacketFromQueue(i) /\ UNCHANGED mgrVars

SpecQueue == InitQueue /\ [][NextQueue]_vars

\* The failover manager's monitoring ticks and manual operations, next to an
\* aggregator initialized and optimized against the same local node.
InitFo ==
    /\ local_node \in NominalNodes
    /\ AggInitialized
    /\ FoConfigured
    /\ DiscConstructed
    /\ MgrConstructed

NextFo ==
    \/ OptimizeAggregation /\ UNCHANGED mgrVars
    \/ \E pings \in [Range(local_node.connections) -> 0..NumHealthCheckTargets] :
            CheckFailoverConditions(pings) /\ UNCHANGED mgrVars
    \/ \E from_interface \in Names, to_interface \in Names :
            ManualFailover(from_interface, to_interface) /\ UNCHANGED mgrVars
    \/ ClearFailureHistory /\ UNCHANGED mgrVars

SpecFo == InitFo /\ [][NextFo]_vars

\* Monitoring ticks alone: the health checks with no manual operation between them.
NextHealth ==
    \E pings \in [Range(local_node.connections) -> 0..NumHealthCheckTargets] :
        CheckFailoverConditions(pings) /\ UNCHANGED mgrVars

SpecHealth == InitFo /\ [][NextHealth]_vars

\* The metrics collector on its own: collections for one interface, one time
\* unit apart, of which at most one in the history found the interface
\* unreachable.
CollectedAt(i) == IF i \in DOMAIN interfaces THEN interfaces[i].current.timestamp ELSE 0

AllReachable(i) ==
    i \in DOMAIN interfaces =>
        \A k \in DOMAIN interfaces[i].history.items :
            interfaces[i].history.items[k].latency # UnreachableMeasure(i).latency

NextMetrics ==
    \E i \in {"eth0"} :
        /\ CollectedAt(i) < MaxCollections
        /\ \/ CollectInterfaceMetrics(i, ReachableMeasure(i), CollectedAt(i) + 1)
           \/ /\ AllReachable(i)
              /\ CollectInterfaceMetrics(i, UnreachableMeasure(i), CollectedAt(i) + 1)

InitMetrics ==
    /\ local_node \in {n \in NominalNodes : n.connections = <<"eth0">>}
    /\ AggInitialized
    /\ FoConfigured
    /\ DiscConstructed
    /\ MgrConstructed

SpecMetrics == InitMetrics /\ [][NextMetrics]_vars

\* Health checks on their own, over every list of at most MaxTargets targets
\* and everything each probe can do.
ProbeLists == UNION {[1..n -> ProbeOutcomes] : n \in 1..MaxTargets}

NextProbe == \E probes \in ProbeLists : CheckConnectionHealthCall(probes)

SpecProbe == InitFo /\ [][NextProbe]_vars

\* Node discovery: discovery ticks of a started node, spaced by the loop's
\* sleep and listen window or more, each capturing some payloads.
TickDelays == {20, 41}
CleanupLags == {0, 1}

Received ==
    {FlatPayload(n, << >>) : n \in {m \in SenderNodes : m.node_id \in {"node-a", "node-b"}}}
    \cup {FlatPayload(n, [group |-> Py("str", "OTHER_GROUP")]) :
            n \in {m \in SenderNodes : m.node_id = "node-c"}}
    \cup {AdvertiseNode(NodeB), NotAnObject("number", {}), NotJson}

ResponseLists == UNION {[1..n -> Received] : n \in 0..MaxResponses}

InitDisc ==
    /\ local_node \in {n \in NominalNodes : n.connections = <<"eth0">>}
    /\ AggConstructed /\ max_queue_size = MaxQueueCfg
    /\ FoConstructed
    /\ DiscStarted
    /\ MgrConstructed

NextDisc ==
    \E io_ok \in BOOLEAN, responses \in ResponseLists,
       delay \in TickDelays, lag \in CleanupLags :
        RunNodeDiscovery(io_ok, responses, delay, lag) /\ UNCHANGED mgrVars

SpecDisc == InitDisc /\ [][NextDisc]_vars

\* The discovery loop of a started manager, step by step, with status queries
\* at any moment; the other loops rest in their sleeps.
TickReceived ==
    {FlatPayload(n, << >>) : n \in {m \in SenderNodes : m.node_id = "node-b"}}
    \cup {NotAnObject("number", {})}

TickResponseLists == UNION {[1..n -> TickReceived] : n \in 0..MaxResponses}

MgrStarted ==
    /\ running = TRUE
    /\ pc = [l \in Loops |-> "sleep"]
    /\ cancel = {}
    /\ to_merge = << >>
    /\ tick_log = << >>
    /\ status = NoStatus
    /\ published = Measured(local_node)
    /\ interfaces = << >>
    /\ health_call = NoCall

InitTick ==
    /\ local_node \in {n \in NominalNodes : n.connections = <<"eth0">>}
    /\ AggConstructed /\ max_queue_size = MaxQueueCfg
    /\ FoConstructed
    /\ DiscStarted
    /\ MgrStarted

NextTick ==
    \/ \E send_ok \in BOOLEAN, delay \in TickDelays : DiscBegin(send_ok, delay)
    \/ \E listen_ok \in BOOLEAN, responses \in TickResponseLists :
            DiscListen(listen_ok, responses)
    \/ DiscMergeOne
    \/ DiscAdvertise
    \/ \E lag \in CleanupLags : DiscCleanup(lag)
    \/ GetMeshStatus

SpecTick == InitTick /\ [][NextTick]_vars

\* The Mesh Manager from its construction: start(), the four loops, errors in
\* their ticks, and stop() at any moment, on a one-interface node whose
\* measurements stay nominal and whose listen windows capture at most one
\* payload.
InitLoops ==
    /\ local_node = NoLocalNode
    /\ AggConstructed /\ max_queue_size = MaxQueueCfg
    /\ FoConstructed
    /\ DiscConstructed
    /\ MgrConstructed

\* The time from one discovery tick to the next in this specification.
LoopDelay == 41

\* The steps of loop l that compute no weights, the delivery of its
\* cancellation included.
LightStep(l) ==
    \/ /\ l = housekeeping
       /\ \/ \E node \in {n \in NominalNodes : n.connections = <<"eth0">>} : CreateTasks(node)
          \/ HkBegin
          \/ HkEnd
    \/ /\ l = "discovery"
       /\ \/ \E delay \in {LoopDelay} : DiscBegin(TRUE, delay)
          \/ \E responses \in {<< >>, <<FlatPayload(NodeB, << >>)>>} :
                DiscListen(TRUE, responses)
          \/ DiscMergeOne
          \/ DiscAdvertise
          \/ DiscCleanup(0)
    \/ /\ l = "monitoring"
       /\ \/ MonBegin(SimpleBandwidthTest("eth0"))
          \/ MonMeasure(10)
          \/ MonHealth([i \in {"eth0"} |-> NumHealthCheckTargets])
    \/ /\ l = "optimization"
       /\ OptBegin
    \/ /\ l \in TaskLoops
       /\ Cancelled(l)

NextLoops ==
    \/ StartInit("host-1", "mac-1", TRUE)
    \/ StartServices
    \/ OptRun
    \/ Stop
    \/ HkFail
    \/ \E l \in TaskLoops : TickFail(l)
    \/ \E l \in Loops : LightStep(l)

SpecLoops == InitLoops /\ [][NextLoops]_vars

\* The event loop runs every coroutine that can run: sleeps and listen windows
\* end, probes return or time out, a cancellation is delivered, and the two
\* steps that compute the weights (_start_services, which start() runs as soon
\* as the local node is initialized, and the optimization tick, both always
\* possible where they stand) come to an end. Nothing obliges start(), stop()
\* or an error to happen.
FairLoops ==
    /\ SpecLoops
    /\ \A l \in Loops : WF_vars(LightStep(l))
    /\ []<>(pc[housekeeping] # "services")
    /\ []<>(pc["optimization"] # "optimize")

\* The monitoring and the optimization loop of a started manager, with what
\* the measurements and the probes can return.
InitMon ==
    /\ local_node \in {n \in NominalNodes : n.connections = <<"eth0">>}
    /\ AggInitialized
    /\ FoConstructed
    /\ DiscStarted
    /\ MgrStarted

MonStep ==
    \/ \E bw \in MeasureBandwidth("eth0") : MonBegin(bw)
    \/ \E lat \in MeasureLatency("eth0") : MonMeasure(lat)
    \/ \E pings \in [{"eth0"} -> 0..NumHealthCheckTargets] : MonHealth(pings)

NextMon ==
    \/ MonStep
    \/ OptBegin
    \/ OptRun

SpecMon == InitMon /\ [][NextMon]_vars

\* The event loop resumes the monitoring loop whenever its sleep, its
\* measurement or its probes have ended.
FairMon == SpecMon /\ WF_vars(MonStep)

\* Node identity: calls of generate_node_id on a host whose name and hardware
\* address may differ from call to call, from the node's construction on, and
\* the discovery ticks that use the id, each capturing at most one payload.
InitId ==
    /\ local_node \in {n \in NominalNodes : n.connections = <<"eth0">>}
    /\ AggConstructed /\ max_queue_size = MaxQueueCfg
    /\ FoConstructed
    /\ DiscConstructed
    /\ MgrConstructed

NextId ==
    \/ \E hostname \in Hostnames, hwaddr \in HardwareAddresses, lookup_ok \in BOOLEAN :
            GenerateNodeId(hostname, hwaddr, lookup_ok) /\ UNCHANGED mgrVars
    \/ \E io_ok \in BOOLEAN, responses \in {<<r>> : r \in Received} \cup {<< >>},
          delay \in TickDelays, lag \in CleanupLags :
            RunNodeDiscovery(io_ok, responses, delay, lag) /\ UNCHANGED mgrVars

SpecId == InitId /\ [][NextId]_vars

-----------------------------------------------------------------------------
(* Claims about the send queues (checked under SpecQueue) *)

\* A successful enqueue of payload p on interface t, as a step.
EnqueueSucceeded(p, t) ==
    /\ ret' = RetTrue
    /\ DOMAIN packet_queues' = DOMAIN packet_queues
    /\ packet_queues'[t].items = Append(packet_queues[t].items, p)
    /\ \A j \in DOMAIN packet_queues \ {t} : packet_queues'[j] = packet_queues[j]
    /\ active_connections' =
            [active_connections EXCEPT
                ![t].packet_count = active_connections[t].packet_count + 1,
                ![t].bytes_sent = active_connections[t].bytes_sent + p.len]

\* A failed enqueue, as a step.
EnqueueFailed ==
    /\ ret' = RetFalse
    /\ packet_queues' = packet_queues
    /\ active_connections' = active_connections

\* C1: every queue_packet call either returns True, having appended exactly the
\* payload to the target interface's queue and added 1 to that interface's
\* packet_count and len(payload) to its bytes_sent, or returns False and leaves
\* every queue and every counter of every interface unchanged.
C1_EnqueueAllOrNothing ==
    [][\A p \in Payloads, i \in Names \cup {None} :
            QueuePacket(p, i) =>
                \/ EnqueueFailed
                \/ \E t \in DOMAIN packet_queues :
                        (i # None => t = i) /\ EnqueueSucceeded(p, t)]_vars

\* An enqueue has succeeded: a queue holds a payload and its bytes are counted.
C1_Witness ==
    /\ ret = RetTrue
    /\ \E i \in DOMAIN packet_queues :
            /\ packet_queues[i].items # << >>
            /\ active_connections[i].packet_count >= 1
            /\ active_connections[i].bytes_sent >= 100

\* C2: no queue ever holds more than max_queue_size payloads; an enqueue onto a
\* queue of max_queue_size - 1 payloads succeeds, and an enqueue onto a queue of
\* max_queue_size payloads fails and leaves every queue as it was, so that no
\* enqueue drops a payload already queued.
C2_QueueBounded ==
    /\ [](\A i \in DOMAIN packet_queues :
                Len(packet_queues[i].items) <= max_queue_size)
    /\ [][\A p \in Payloads, i \in Names \cup {None} :
            QueuePacket(p, i) =>
                /\ \A t \in DOMAIN packet_queues :
                        \E k \in 0..1 :
                            packet_queues'[t].items =
                                packet_queues[t].items \o SubSeq(<<p>>, 1, k)
                /\ i \in DOMAIN packet_queues =>
                        /\ Len(packet_queues[i].items) = max_queue_size - 1 =>
                                /\ ret' = RetTrue
                                /\ Len(packet_queues'[i].items) = max_queue_size
                        /\ Len(packet_queues[i].items) = max_queue_size =>
                                /\ ret' = RetFalse
                                /\ packet_queues' = packet_queues]_vars

\* A queue of two payloads is full and the latest enqueue was refused.
C2_Witness ==
    /\ ret = RetFalse
    /\ max_queue_size = 2
    /\ \E i \in DOMAIN packet_queues : Len(packet_queues[i].items) = max_queue_size

-----------------------------------------------------------------------------
(* Claims about weights and selection *)

\* Qualifying as the specification words it: active, bandwidth > 0, latency < 1000.
Qualifies(info) == info.active /\ info.bandwidth > 0 /\ info.latency < 1000

\* raw = (bandwidth / 100) * max(0.1, 100 / latency) as a fraction <<n, d>>:
\* 100 / latency is at least 0.1 exactly for 0 < latency <= 1000.
RawFraction(info) ==
    IF info.latency > 0 /\ info.latency <= 1000
    THEN <<info.bandwidth, info.latency>>
    ELSE <<info.bandwidth, 1000>>

SameFraction(x, y) == x[1] * y[2] = y[1] * x[2]

\* The interfaces that qualify, in iteration order.
Qualifying == SelectSeq(ConnOrder, LAMBDA i : Qualifies(active_connections[i]))

\* C3: once the aggregator is initialized, and so after every weight
\* computation, if some interface qualifies then the weights of all interfaces
\* sum to 1, every qualifying interface has weight raw_i / (sum of raw_j over the
\* qualifying j), and every other interface has weight 0.
C3_WeightsNormalized ==
    (agg_running /\ Qualifying # << >>) =>
        LET raw == [i \in Range(Qualifying) |->
                        Rat(RawFraction(active_connections[i])[1],
                            RawFraction(active_connections[i])[2])]
            total == RSum(raw, Qualifying)
        IN  /\ DOMAIN connection_weights = DOMAIN active_connections
            /\ SameFraction(RSum(connection_weights, ConnOrder), ROne)
            /\ \A i \in Range(Qualifying) :
                    SameFraction(RMul(connection_weights[i], total), raw[i])
            /\ \A i \in DOMAIN active_connections \ Range(Qualifying) :
                    connection_weights[i] = RZero

\* After an optimization tick two interfaces qualify with different weights.
C3_Witness ==
    /\ agg_running
    /\ aggregation_mode = "load_balance"
    /\ \E i, j \in Range(Qualifying) :
            /\ RLess(connection_weights[j], connection_weights[i])
            /\ active_connections[i].latency = 25
            /\ local_node.latency[i] = 25

\* C4: in every mode and for every packet size, select_connection returns no
\* interface of weight 0, and returns None when no interface qualifies.
C4_NeverSelectsWeightZero ==
    \A size \in PacketSizes :
        /\ \A r \in SelectConnection(size) :
                r # None => RLess(RZero, Get(connection_weights, r, RZero))
        /\ Qualifying = << >> => SelectConnection(size) = {None}

\* C5: select_connection never returns an interface that is in the failover
\* manager's failed set.
C5_FailedNeverSelected ==
    \A i \in failed_interfaces, size \in PacketSizes : i \notin SelectConnection(size)

-----------------------------------------------------------------------------
(* Claims about the failover manager *)

Ticks == [Range(local_node.connections) -> 0..NumHealthCheckTargets]

\* The number of events of this type for interface i that the step appends.
Appended(type, i) ==
    Cardinality({k \in (Len(failover_events) + 1)..Len(failover_events') :
                    failover_events'[k] = [event_type |-> type, interface |-> i]})

\* C6: in a sequence of health checks, an interface that is not failed stays out
\* of the failed set while its run of consecutive unhealthy checks is shorter
\* than failover_threshold, and enters it, with exactly one connection_lost
\* event, at the check that makes the run failover_threshold long; a failed
\* interface stays failed while its run of consecutive healthy checks is
\* shorter than recovery_threshold (an unhealthy check restarts the run), and
\* leaves the failed set, with exactly one connection_restored event, at the
\* check that makes the run recovery_threshold long.
C6_Hysteresis ==
    [][\A pings \in Ticks :
        CheckFailoverConditions(pings) =>
            \A i \in Range(local_node.connections) :
                LET run == check_run'[i]
                IN  /\ (i \notin failed_interfaces /\ ~run.healthy
                            /\ run.n < failover_threshold) =>
                        /\ i \notin failed_interfaces'
                        /\ Appended("connection_lost", i) = 0
                    /\ (i \notin failed_interfaces /\ ~run.healthy
                            /\ run.n = failover_threshold) =>
                        /\ i \in failed_interfaces'
                        /\ Appended("connection_lost", i) = 1
                    /\ (i \in failed_interfaces /\ ~run.healthy) =>
                        /\ i \in failed_interfaces'
                        /\ Appended("connection_lost", i) = 0
                    /\ (i \in failed_interfaces /\ run.healthy
                            /\ run.n < recovery_threshold) =>
                        /\ i \in failed_interfaces'
                        /\ Appended("connection_restored", i) = 0
                    /\ (i \in failed_interfaces /\ run.healthy
                            /\ run.n = recovery_threshold) =>
                        /\ i \notin failed_interfaces'
                        /\ Appended("connection_restored", i) = 1]_vars

\* eth0 failed after three unhealthy checks and recovered after two healthy ones.
C6_Witness ==
    /\ failover_events = <<[event_type |-> "connection_lost", interface |-> "eth0"],
                           [event_type |-> "connection_restored", interface |-> "eth0"]>>
    /\ "eth0" \notin failed_interfaces
    /\ check_run["eth0"] = [healthy |-> TRUE, n |-> recovery_threshold]

\* C7: for every interface, failure_counts and success_counts are never both
\* greater than 0.
C7_CountersExclusive ==
    \A i \in Names : ~(Get(failure_counts, i, 0) > 0 /\ Get(success_counts, i, 0) > 0)

\* An interface that recovered (its healthy checks were counted) has failed a
\* check since, while another interface counts successes.
C7_Witness ==
    \E i, j \in Names :
        /\ [event_type |-> "connection_restored", interface |-> i] \in Range(failover_events)
        /\ Get(failure_counts, i, 0) > 0
        /\ Get(success_counts, j, 0) > 0

\* C8: in every monitoring tick and for every interface i, the tick appends a
\* connection_lost or connection_restored event for i exactly when i's
\* membership in the failed set changes in that tick.
C8_EventIffMembershipChange ==
    [][\A pings \in Ticks :
        CheckFailoverConditions(pings) =>
            \A i \in Names :
                (Appended("connection_lost", i) + Appended("connection_restored", i) > 0)
                    <=> ((i \in failed_interfaces) # (i \in failed_interfaces'))]_vars

\* An interface failed once and kept failing its checks past the threshold,
\* with a single connection_lost event in the log.
C8_Witness ==
    \E i \in failed_interfaces :
        /\ Get(failure_counts, i, 0) > failover_threshold
        /\ failover_events = <<[event_type |-> "connection_lost", interface |-> i]>>

\* The state the specification infers from A = number of the local node's
\* interfaces outside the failed set and T = number of its interfaces.
InferredState ==
    LET T == Cardinality(Range(local_node.connections))
        A == Cardinality(Range(local_node.connections) \ failed_interfaces)
    IN  IF A = 0 THEN "degraded"
        ELSE IF A = T THEN "normal"
        ELSE IF A = 1 THEN "monitoring"
        ELSE "normal"

\* C9: after every monitoring tick the failover state is the one inferred from
\* A and T.
C9_StateInferred ==
    [][\A pings \in Ticks : CheckFailoverConditions(pings) => fo_state' = InferredState']_vars

\* C10: a monitoring tick emits a critical record exactly when it changes the
\* failover state into degraded (so that over any sequence of ticks the number
\* of critical records equals the number of transitions into degraded), and a
\* tick that ends with every interface failed ends in degraded.
C10_CriticalOnEnteringDegraded ==
    [][\A pings \in Ticks :
        CheckFailoverConditions(pings) =>
            /\ (log_critical' = 1) <=> (fo_state # "degraded" /\ fo_state' = "degraded")
            /\ Range(local_node.connections) \subseteq failed_interfaces' =>
                    fo_state' = "degraded"]_vars

\* The step appends exactly this one event to the log.
AppendsOnly(event) == failover_events' = Append(failover_events, event)

\* C11 as stated: for every pair of names (from, to), after
\* manual_failover(from, to) from is failed, to is not failed, the primary is
\* to, and exactly one manual_failover event has been appended.
C11_ManualFailoverAnyPair ==
    [][\A from_interface, to_interface \in Names :
        ManualFailover(from_interface, to_interface) =>
            /\ from_interface \in failed_interfaces'
            /\ to_interface \notin failed_interfaces'
            /\ primary_interface' = to_interface
            /\ AppendsOnly([event_type |-> "manual_failover",
                            interface |-> from_interface])]_vars

\* C11, amended: after manual_failover(from, to), to is not failed, the primary
\* is to, exactly one manual_failover event has been appended, and from is
\* failed exactly when from and to are distinct names.
C11_ManualFailoverForces ==
    [][\A from_interface, to_interface \in Names :
        ManualFailover(from_interface, to_interface) =>
            /\ (from_interface \in failed_interfaces') <=> (from_interface # to_interface)
            /\ to_interface \notin failed_interfaces'
            /\ primary_interface' = to_interface
            /\ AppendsOnly([event_type |-> "manual_failover",
                            interface |-> from_interface])]_vars

\* A manual failover from eth0 to wlan0 after health checks had failed wlan0.
C11_Witness ==
    /\ failover_events = <<[event_type |-> "connection_lost", interface |-> "wlan0"],
                           [event_type |-> "manual_failover", interface |-> "eth0"]>>
    /\ failed_interfaces = {"eth0"}
    /\ primary_interface = "wlan0"

\* C12: for distinct X and Y and any prior state, manual_failover(X, Y)
\* followed at once by manual_failover(Y, X) leaves the primary equal to X and
\* X out of the failed set.
C12_ManualFailoverSwapBack ==
    \A X, Y \in Names :
        X # Y =>
            LET st == ManualFailoverFields(ManualFailoverFields(FoFields, X, Y), Y, X)
            IN  /\ st.primary = X
                /\ X \notin st.failed

\* manual_failover(eth0, wlan0) and then manual_failover(wlan0, eth0) have run,
\* with no health check before or between them.
C12_Witness ==
    /\ failover_events = <<[event_type |-> "manual_failover", interface |-> "eth0"],
                           [event_type |-> "manual_failover", interface |-> "wlan0"]>>
    /\ primary_interface = "eth0"
    /\ failed_interfaces = {"wlan0"}
    /\ failure_counts = << >>

-----------------------------------------------------------------------------
(* Claims about node discovery *)

\* C13: after every discovery tick no peer of the table has
\* now - last_seen > 60 s, now being the time of the tick's stale cleanup; and
\* the tick keeps every peer last seen within 60 s of that time, the peers it
\* has just received included, whatever the pass returned and whether or not
\* sending or listening failed.
C13_NoStalePeerAfterTick ==
    /\ [](\A id \in DOMAIN mesh_nodes :
            clock - mesh_nodes[id].last_seen <= stale_threshold)
    /\ [][/\ \A id \in DOMAIN mesh_nodes :
                clock' - mesh_nodes[id].last_seen <= stale_threshold
                    => id \in DOMAIN mesh_nodes'
          /\ \A k \in DOMAIN discovered_nodes' :
                discovered_nodes'[k].items["node_id"].v \in DOMAIN mesh_nodes']_vars

\* A peer last seen exactly 60 s before the latest cleanup is in the table.
C13_Witness ==
    /\ clock > stale_threshold
    /\ \E id \in DOMAIN mesh_nodes : clock - mesh_nodes[id].last_seen = stale_threshold

\* The decoded payload carries the five required fields of the Node record.
EqualOnRequiredFields(node_data, node) ==
    /\ node_data.type = "dict"
    /\ required_fields \subseteq DOMAIN node_data.items
    /\ node_data.items["node_id"] = Py("str", node.node_id)
    /\ node_data.items["ip_address"] = Py("str", node.ip_address)
    /\ node_data.items["connections"] = Py("list", node.connections)
    /\ node_data.items["bandwidth"] = Py("dict", node.bandwidth)
    /\ node_data.items["latency"] = Py("dict", node.latency)

\* C14: a discovery pass that captures the payload advertise_node produced for
\* the Node record of another node accepts it and returns a peer equal to the
\* record on node_id, ip_address, connections, bandwidth and latency.
C14_AdvertisementRoundTrip ==
    [][\A delay \in TickDelays, lag \in CleanupLags, node \in SenderNodes :
        (RunNodeDiscovery(TRUE, <<AdvertiseNode(node)>>, delay, lag)
            /\ node.node_id # node_id) =>
                /\ Len(discovered_nodes') = 1
                /\ EqualOnRequiredFields(discovered_nodes'[1], node)
                /\ node.node_id \in DOMAIN mesh_nodes']_vars

\* C15: every peer a discovery pass returns came in a payload carrying the
\* local node's group string.
C15_OnlyMatchingGroup ==
    \A k \in DOMAIN discovered_nodes :
        /\ "group" \in DOMAIN discovered_nodes[k].items
        /\ discovered_nodes[k].items["group"] = Py("str", mesh_group)

\* A payload is admissible for the node whose id is own_id: a JSON object with
\* the five required fields of types string, string, list, mapping, mapping
\* whose node_id is not own_id.
Admissible(text, own_id) ==
    /\ text.kind = "object"
    /\ required_fields \subseteq DOMAIN text.members
    /\ text.members["node_id"].t = "string"
    /\ text.members["ip_address"].t = "string"
    /\ text.members["connections"].t = "array"
    /\ text.members["bandwidth"].t = "object"
    /\ text.members["latency"].t = "object"
    /\ text.members["node_id"].v # own_id

\* C16: validation accepts a decoded payload if and only if the payload is
\* admissible, for every payload and every local id; and a discovery pass that
\* captured one payload returns it exactly when it is admissible.
C16_AcceptsIffAdmissible ==
    /\ [](\A text \in Datagrams \ {NotJson}, own_id \in {None, "node-a", "node-b"} :
            (ValidateNodeData(JsonLoads(text), own_id) = "True")
                <=> Admissible(text, own_id))
    /\ [][\A text \in Received, delay \in TickDelays, lag \in CleanupLags :
            RunNodeDiscovery(TRUE, <<text>>, delay, lag) =>
                /\ Admissible(text, node_id) => discovered_nodes' = <<JsonLoads(text)>>
                /\ ~Admissible(text, node_id) => discovered_nodes' = << >>]_vars

\* A pass returned node-b's admissible payload, and node-b is in the peer table.
C16_Witness ==
    /\ discovered_nodes = <<JsonLoads(FlatPayload(NodeB, << >>))>>
    /\ "node-b" \in DOMAIN mesh_nodes

-----------------------------------------------------------------------------
(* Claims about the aggregation mode and the selection modes *)

\* The interfaces whose active flag is set, in iteration order.
ActiveInterfaces == SelectSeq(ConnOrder, LAMBDA i : active_connections[i].active)

\* C17: after every optimization tick the mode is failover when zero or one
\* interface is active and load_balance when two or more are; in particular
\* the re-evaluation never leaves or sets the mode adaptive.
C17_ModeFollowsActiveCount ==
    [][OptimizeAggregation =>
        LET n == Cardinality({i \in DOMAIN active_connections' :
                                active_connections'[i].active})
        IN  aggregation_mode' = IF n <= 1 THEN "failover" ELSE "load_balance"]_vars

\* The re-evaluation has put a single-interface aggregator into failover mode
\* (the constructor's mode is load_balance).
C17_Witness ==
    /\ agg_running
    /\ Cardinality(DOMAIN active_connections) = 1
    /\ aggregation_mode = "failover"

\* The interfaces that are active and have a positive weight.
PositiveWeight ==
    {i \in DOMAIN active_connections :
        /\ active_connections[i].active
        /\ RLess(RZero, Get(connection_weights, i, RZero))}

\* C18: the possible results of the weighted-random selection are exactly the
\* interfaces that are active with weight > 0, or no interface when there is
\* none; in load_balance mode these are the possible results of
\* select_connection for every packet size.
C18_LoadBalanceSelects ==
    LET results == IF PositiveWeight = {} THEN {None} ELSE PositiveWeight
    IN  /\ WeightedRandomSelection = results
        /\ aggregation_mode = "load_balance" =>
                \A size \in PacketSizes : SelectConnection(size) = results

\* In load_balance mode, of two active interfaces one has weight 0.
C18_Witness ==
    /\ aggregation_mode = "load_balance"
    /\ Cardinality(DOMAIN active_connections) = 2
    /\ Cardinality(PositiveWeight) = 1

\* Packet sizes around the threshold of the adaptive selection.
AdaptiveSizes == {0, 1, 100, 1000, 1001, 2000}

\* C19: adaptive selection returns, for packet_size > 1000, the active
\* interface of maximum bandwidth and, for 0 < packet_size <= 1000, the active
\* interface of minimum latency, in both cases the earliest in iteration order
\* of those that tie; for packet_size = 0 what load_balance selection returns;
\* no interface when none is active. In adaptive mode select_connection
\* returns the same.
C19_AdaptiveSelects ==
    \A size \in AdaptiveSizes :
        LET act == ActiveInterfaces
            bw(k) == active_connections[act[k]].bandwidth
            lat(k) == active_connections[act[k]].latency
        IN  /\ size = 0 => AdaptiveSelection(size) = WeightedRandomSelection
            /\ (size > 0 /\ act = << >>) => AdaptiveSelection(size) = {None}
            /\ (size > 1000 /\ act # << >>) =>
                    \E k \in 1..Len(act) :
                        /\ AdaptiveSelection(size) = {act[k]}
                        /\ \A j \in 1..Len(act) : bw(j) <= bw(k) /\ (j < k => bw(j) < bw(k))
            /\ (size > 0 /\ size <= 1000 /\ act # << >>) =>
                    \E k \in 1..Len(act) :
                        /\ AdaptiveSelection(size) = {act[k]}
                        /\ \A j \in 1..Len(act) : lat(j) >= lat(k) /\ (j < k => lat(j) > lat(k))
            /\ aggregation_mode = "adaptive" =>
                    SelectConnection(size) = AdaptiveSelection(size)

\* In adaptive mode, two interfaces of different bandwidth tie on latency.
C19_Witness ==
    /\ aggregation_mode = "adaptive"
    /\ DOMAIN active_connections = {"eth0", "wlan0"}
    /\ active_connections["eth0"].latency = active_connections["wlan0"].latency
    /\ active_connections["eth0"].bandwidth > active_connections["wlan0"].bandwidth

\* What queue_packet can return in the current state when it fails because
\* select_connection finds no interface, and when it fails because the target
\* queue is full.
NoRouteResults ==
    {r \in {RetNone, RetTrue, RetFalse} :
        \E p \in Payloads :
            /\ SelectConnection(p.len) = {None}
            /\ ENABLED (QueuePacket(p, None) /\ ret' = r)}

QueueFullResults ==
    {r \in {RetNone, RetTrue, RetFalse} :
        \E p \in Payloads, i \in DOMAIN packet_queues :
            /\ QueueIsFull(i)
            /\ ENABLED (QueuePacket(p, i) /\ ret' = r)}

\* C20: an enqueue that fails for want of an interface (NoRoute) and an
\* enqueue that fails on a full queue (QueueFull) return different results.
C20_FailuresDistinguishable == NoRouteResults \cap QueueFullResults = {}

\* C21: after a weight computation in which no interface qualifies, the weight
\* map is empty: it has no entry for any interface.
C21_EmptyWhenNoneQualifies ==
    (agg_running /\ Qualifying = << >>) => DOMAIN connection_weights = {}

\* A dequeue of interface i that finds a payload: it returns the oldest payload
\* of i's queue and removes exactly that one.
DequeueOldest(i) ==
    /\ ret' = RetPayload(Head(packet_queues[i].items))
    /\ packet_queues' = [packet_queues EXCEPT ![i].items = Tail(@)]

\* A dequeue that finds nothing: it returns None and changes no state.
DequeueEmpty ==
    /\ ret' = RetNone
    /\ UNCHANGED <<local_node, max_queue_size, aggregation_mode, active_connections,
                   connection_weights, packet_queues, agg_running>>

\* C25: each interface queue is first-in, first-out. get_packet_from_queue on
\* a known interface with a non-empty queue returns the oldest payload and
\* removes exactly it; on an empty queue or an unknown interface it returns
\* None and changes no state; and no step of the aggregator changes an existing
\* queue otherwise than by appending one payload at its tail (a successful
\* enqueue) or removing its head (a dequeue that returns it), so that payloads
\* leave a queue in the order the successful enqueues appended them, each once.
C25_QueueFifo ==
    [][/\ \A i \in Names :
            GetPacketFromQueue(i) =>
                IF i \in DOMAIN packet_queues /\ packet_queues[i].items # << >>
                THEN DequeueOldest(i)
                ELSE DequeueEmpty
       /\ \A i \in DOMAIN packet_queues :
            /\ i \in DOMAIN packet_queues'
            /\ \/ packet_queues'[i].items = packet_queues[i].items
               \/ /\ ret' = RetTrue
                  /\ \E p \in Payloads :
                        packet_queues'[i].items = Append(packet_queues[i].items, p)
               \/ /\ packet_queues[i].items # << >>
                  /\ ret' = RetPayload(Head(packet_queues[i].items))
                  /\ packet_queues'[i].items = Tail(packet_queues[i].items)]_vars

\* Payload 1 and then payload 2 were enqueued on eth0, the only interface; a
\* dequeue has returned payload 1 and payload 2 is still queued.
C25_Witness ==
    /\ DOMAIN packet_queues = {"eth0"}
    /\ ret = RetPayload([id |-> 1, len |-> 0])
    /\ packet_queues["eth0"].items = <<[id |-> 2, len |-> 100]>>
    /\ active_connections["eth0"].packet_count = 2

\* C26: the node id is stable. Once generate_node_id has returned a value
\* (node_id is set), every later call returns that same value and leaves the
\* id as it is, whatever the host name and the hardware address have become
\* and whether the address lookup works; and no step changes an id once set.
C26_NodeIdStable ==
    /\ [](node_id # None =>
            \A hostname \in Hostnames, hwaddr \in HardwareAddresses,
               lookup_ok \in BOOLEAN :
                LET st == GenerateNodeIdFields(node_id, mac_address,
                                               hostname, hwaddr, lookup_ok)
                IN  st.result = node_id /\ st.node_id = node_id)
    /\ [][node_id # None => node_id' = node_id]_vars

\* The id was generated on host-1 with address mac-1, and discovery ticks have
\* run since; a call on host-2 with address mac-2 is among those checked.
C26_Witness ==
    /\ node_id = Uuid5("host-1", "mac-1")
    /\ mac_address = "mac-1"
    /\ clock > 0
    /\ Uuid5("host-2", "mac-2") # node_id

\* C27: a malformed payload is dropped in isolation. Whatever list of payloads
\* one discovery pass captured, every admissible payload of the list is among
\* the peers the pass returns, whichever malformed payloads (not JSON, a JSON
\* number or null, an object with fields missing or wrongly typed) come before
\* or after it in the list.
C27_MalformedIsolated ==
    [][\A responses \in ResponseLists, delay \in TickDelays, lag \in CleanupLags :
            RunNodeDiscovery(TRUE, responses, delay, lag) =>
                \A k \in DOMAIN responses :
                    Admissible(responses[k], node_id) =>
                        \E j \in DOMAIN discovered_nodes' :
                            discovered_nodes'[j] = JsonLoads(responses[k])]_vars

\* The interfaces whose membership in the failed set the step changes.
MembershipChanges ==
    (failed_interfaces \ failed_interfaces') \cup (failed_interfaces' \ failed_interfaces)

\* C28: whichever operation causes it, a health-check tick or manual_failover,
\* the operation appends to the failover event log exactly one event for each
\* interface it adds to the failed set and exactly one for each interface it
\* removes from it: two events when it changes the membership of two
\* interfaces, none when it changes none.
C28_OneEventPerMembershipChange ==
    [][(\/ \E pings \in Ticks : CheckFailoverConditions(pings)
        \/ \E from_interface \in Names, to_interface \in Names :
                ManualFailover(from_interface, to_interface)) =>
            /\ Len(failover_events') =
                    Len(failover_events) + Cardinality(MembershipChanges)
            /\ \A k \in DOMAIN failover_events :
                    failover_events'[k] = failover_events[k]]_vars

\* The first interface, in the configured backups order, that is not in the
\* failed set; None when every backup is failed or no backup is configured.
FirstBackupOutside(failed) ==
    IF \E k \in DOMAIN backup_interfaces : backup_interfaces[k] \notin failed
    THEN backup_interfaces[CHOOSE k \in DOMAIN backup_interfaces :
                /\ backup_interfaces[k] \notin failed
                /\ \A j \in 1..(k - 1) : backup_interfaces[j] \in failed]
    ELSE None

\* The failover manager's fields within a monitoring tick, once the health
\* checks of the first k interfaces of the local node have been handled.
AfterChecks(pings, k) ==
    CheckEach(FoFields, SubSeq(local_node.connections, 1, k), pings)

\* C29: in every monitoring tick, when the health check of an interface moves
\* it into the failed set and it was the primary at that check, the primary
\* after the check is the first interface of the backups order that is not in
\* the failed set, or None when there is no such backup; when the interface
\* moved into the failed set was not the primary, the check leaves the
\* primary as it was.
C29_PrimaryAfterFailover ==
    [][\A pings \in Ticks :
        CheckFailoverConditions(pings) =>
            \A k \in DOMAIN local_node.connections :
                LET i == local_node.connections[k]
                    before == AfterChecks(pings, k - 1)
                    after == AfterChecks(pings, k)
                IN  (i \notin before.failed /\ i \in after.failed) =>
                        /\ before.primary = i =>
                                after.primary = FirstBackupOutside(after.failed)
                        /\ before.primary # i => after.primary = before.primary
                        /\ k = Len(local_node.connections) =>
                                primary_interface' = after.primary]_vars

\* With the backups wlan0 and ppp0 both outside the failed set, health checks
\* have failed the primary eth0, and wlan0, the first backup, is the primary.
C29_Witness ==
    /\ failover_events = <<[event_type |-> "connection_lost", interface |-> "eth0"]>>
    /\ backup_interfaces = <<"wlan0", "ppp0">>
    /\ failed_interfaces = {"eth0"}
    /\ primary_interface = "wlan0"

\* The record's advertised fields are those of one payload that can be received.
FromOnePayload(node) ==
    \E text \in {t \in TickReceived : t.kind = "object"} :
        LET node_data == JsonLoads(text).items
        IN  /\ node.node_id = node_data["node_id"]
            /\ node.ip_address = node_data["ip_address"]
            /\ node.connections = node_data["connections"]
            /\ node.bandwidth = node_data["bandwidth"]
            /\ node.latency = node_data["latency"]
            /\ node.data_caps = IF "data_caps" \in DOMAIN node_data
                                THEN node_data["data_caps"] ELSE Py("dict", "{}")

\* Every record of the table is whole: filed under its own id, its advertised
\* fields those of one received payload, its last_seen a time of reception.
WholeRecords(nodes) ==
    \A id \in DOMAIN nodes :
        /\ nodes[id].node_id = Py("str", id)
        /\ FromOnePayload(nodes[id])
        /\ nodes[id].last_seen \in 0..clock

\* C22: under every interleaving of the discovery loop's steps with status
\* queries, what a query returns, and the peer table at every instant at
\* which a reader can look at it, holds for each peer a record whose fields
\* all come from one update: the advertised fields from one and the same
\* received payload, and last_seen from a reception; never a record that
\* mixes the fields of two payloads.
C22_ConsistentSnapshot == WholeRecords(status.mesh_nodes) /\ WholeRecords(mesh_nodes)

\* A query made inside the merge loop returned node-b's record, built from the
\* payload sent from 10.0.0.2, while node-b's other payload, sent from
\* 10.0.0.9, was waiting to be merged.
C22_Witness ==
    /\ pc["discovery"] = "merge"
    /\ to_merge # << >>
    /\ Head(to_merge).items["ip_address"] = Py("str", "10.0.0.9")
    /\ \E k \in DOMAIN tick_log : tick_log[k] = Did("merge")
    /\ status.mesh_nodes = mesh_nodes
    /\ "node-b" \in DOMAIN status.mesh_nodes
    /\ status.mesh_nodes["node-b"].ip_address = Py("str", "10.0.0.2")
    /\ status.mesh_nodes["node-b"].last_seen = clock

\* The places of the tick's log that hold a NODE_ADVERTISEMENT broadcast.
Advertisements ==
    {k \in DOMAIN tick_log :
        /\ tick_log[k].op = "broadcast"
        /\ tick_log[k].datagram.members["type"].v = "NODE_ADVERTISEMENT"}

\* C30: in every discovery tick the DISCOVERY_REQUEST broadcast comes first,
\* before the listen window; the peers the tick received are all merged
\* before the advertisement; a tick that has reached its sleep has broadcast
\* exactly one NODE_ADVERTISEMENT, that of the local node, also when no reply
\* arrived and when sending the request or listening failed, and no tick
\* broadcasts more than one; the stale-peer eviction comes after the
\* advertisement, and peers are evicted in no other step.
C30_TickOrder ==
    /\ [](/\ tick_log # << >> =>
                tick_log[1] = Sent(SendDiscoveryBroadcast(node_id))
          /\ \A k \in DOMAIN tick_log :
                /\ tick_log[k] = Did("listen") => k = 2
                /\ tick_log[k] = Did("merge") => \A j \in Advertisements : k < j
                /\ tick_log[k] = Did("cleanup") => \E j \in Advertisements : j < k
          /\ Cardinality(Advertisements) <= 1
          /\ \A j \in Advertisements :
                tick_log[j] = Sent(AdvertiseNode(LocalMeshNode))
          /\ (pc["discovery"] = "sleep" /\ tick_log # << >>) =>
                /\ Cardinality(Advertisements) = 1
                /\ tick_log[Len(tick_log)] = Did("cleanup"))
    /\ [][/\ DiscAdvertise =>
                \A k \in DOMAIN discovered_nodes :
                    discovered_nodes[k].items["node_id"].v \in DOMAIN mesh_nodes
          /\ (DOMAIN mesh_nodes \ DOMAIN mesh_nodes' # {}) =>
                /\ Advertisements # {}
                /\ tick_log' = Append(tick_log, Did("cleanup"))]_vars

\* A tick whose request could not be sent has ended: without a listen window,
\* it broadcast the advertisement and ran the cleanup, which evicted node-b.
C30_Witness ==
    /\ pc["discovery"] = "sleep"
    /\ tick_log = <<Sent(SendDiscoveryBroadcast(node_id)),
                    Sent(AdvertiseNode(LocalMeshNode)), Did("cleanup")>>
    /\ "node-b" \in DOMAIN status.mesh_nodes
    /\ mesh_nodes = << >>

\* stop() has been invoked on a manager that start() had set running.
Stopped == pc[housekeeping] # "idle" /\ ~running

AllLoopsDone == \A l \in Loops : pc[l] = "done"

\* C23: once stop() has been invoked, none of the discovery, monitoring,
\* optimization and housekeeping loops begins a tick (a loop inside a tick may
\* finish it), every one of them eventually terminates, wherever it was, and
\* a further stop() changes nothing.
C23_ShutdownObserved ==
    /\ [][Stopped => \A l \in Loops :
                        pc[l] \notin InTick(l) => pc'[l] \notin InTick(l)]_vars
    /\ Stopped ~> AllLoopsDone
    /\ [][(Stopped /\ Stop) => UNCHANGED vars]_vars

\* stop() found the discovery loop in its listen window, the request sent and
\* nothing else done in that tick, and all four loops have terminated.
C23_Witness ==
    /\ AllLoopsDone
    /\ ~running
    /\ tick_log = <<Sent(SendDiscoveryBroadcast(node_id))>>

\* C24: an error in a tick of the discovery, monitoring or optimization loop
\* ends no loop and leaves running alone: a task loop terminates only once the
\* manager is no longer running, a step of a task loop never changes running
\* or the position of another loop, and the loop that failed leaves its sleep
\* only into its next tick (running) or to terminate (stopped), and does
\* leave it (the discovery loop as long as the modelled time allows a tick).
C24_TickErrorContained ==
    /\ [][\A l \in TaskLoops :
            /\ (pc[l] # "done" /\ pc'[l] = "done") => ~running
            /\ (pc'[l] = "failed" /\ pc[l] # "failed") =>
                    /\ running' = running
                    /\ \A m \in Loops \ {l} : pc'[m] = pc[m]
            /\ (pc[l] = "failed" /\ pc'[l] # "failed") =>
                    \/ running /\ pc'[l] \in InTick(l) /\ l \notin cancel
                    \/ ~running /\ pc'[l] = "done"]_vars
    /\ \A l \in TaskLoops :
            (pc[l] = "failed") ~>
                \/ pc[l] \in InTick(l)
                \/ ~running
                \/ l = "discovery" /\ clock + LoopDelay > MaxTime

\* The manager is running and the discovery loop is in the listen window of a
\* new tick, the tick before having failed in the middle of its merge (the
\* payloads it had not yet merged are still there).
C24_Witness ==
    /\ running
    /\ pc["discovery"] = "listen"
    /\ to_merge # << >>
    /\ \A l \in Loops : pc[l] # "done"

\* The aggregator has been initialized against the local node record that was
\* built: it runs, and every interface of the record has its connection info,
\* its queue and its weight.
AggregatorReady ==
    /\ local_node # NoLocalNode
    /\ agg_running
    /\ DOMAIN active_connections = Range(local_node.connections)
    /\ DOMAIN packet_queues = Range(local_node.connections)
    /\ DOMAIN connection_weights = Range(local_node.connections)

\* C31: a discovery, monitoring or optimization loop has left the state of a
\* task created and not yet run (it is in a tick, sleeps after one, or has
\* done something of one) only when the local node record has been built and
\* the aggregator initialized against it; nothing of a tick has happened
\* before.
C31_StartupOrdering ==
    /\ (\E l \in TaskLoops : pc[l] \in InTick(l) \cup {"sleep", "failed"}) => AggregatorReady
    /\ ~AggregatorReady =>
            /\ tick_log = << >>
            /\ check_run = << >>
            /\ mesh_nodes = << >>

\* The three tasks exist and none has run, and the aggregator is not yet
\* initialized: start() is between their creation and initialize.
C31_Witness ==
    /\ \A l \in TaskLoops : pc[l] = "ready"
    /\ pc[housekeeping] = "services"
    /\ local_node # NoLocalNode
    /\ ~agg_running
    /\ packet_queues = << >>

\* The step merges a received payload (the head of to_merge) into the table.
MergesPayload == pc["discovery"] = "merge" /\ to_merge # << >> /\ to_merge' = Tail(to_merge)

\* The record holds every field of the payload, seen at time t.
RecordOf(node, node_data, t) ==
    /\ node.node_id = node_data["node_id"]
    /\ node.ip_address = node_data["ip_address"]
    /\ node.connections = node_data["connections"]
    /\ node.bandwidth = node_data["bandwidth"]
    /\ node.latency = node_data["latency"]
    /\ node.data_caps = IF "data_caps" \in DOMAIN node_data
                        THEN node_data["data_caps"] ELSE Py("dict", "{}")
    /\ node.last_seen = t

\* C32: a peer record appears only when a payload with a node_id the table
\* does not hold is merged, and then holds all fields of that payload; the
\* merge of a payload whose node_id the table holds sets that record's
\* last_seen and nothing else of the table; no step changes another field of
\* a record that stays; and a record disappears only in the stale-cleanup
\* step, being stale.
C32_PeerLifecycle ==
    [][/\ \A id \in DOMAIN mesh_nodes' \ DOMAIN mesh_nodes :
            /\ MergesPayload
            /\ Head(to_merge).items["node_id"].v = id
            /\ RecordOf(mesh_nodes'[id], Head(to_merge).items, clock)
       /\ \A id \in DOMAIN mesh_nodes \cap DOMAIN mesh_nodes' :
            /\ [mesh_nodes'[id] EXCEPT !.last_seen = mesh_nodes[id].last_seen] = mesh_nodes[id]
            /\ mesh_nodes'[id].last_seen # mesh_nodes[id].last_seen =>
                    MergesPayload /\ Head(to_merge).items["node_id"].v = id
       /\ (MergesPayload /\ Head(to_merge).items["node_id"].v \in DOMAIN mesh_nodes) =>
            mesh_nodes' = [mesh_nodes EXCEPT ![Head(to_merge).items["node_id"].v].last_seen = clock]
       /\ \A id \in DOMAIN mesh_nodes \ DOMAIN mesh_nodes' :
            /\ pc["discovery"] = "cleanup" /\ pc'["discovery"] = "sleep"
            /\ clock' - mesh_nodes[id].last_seen > stale_threshold]_vars

\* The last payload of a tick has been merged: it names node-b, whose record
\* was touched by it (last_seen is now) and keeps the address it was created
\* with, which is not the address in this payload.
C32_Witness ==
    /\ pc["discovery"] = "merge"
    /\ to_merge = << >>
    /\ discovered_nodes # << >>
    /\ "node-b" \in DOMAIN mesh_nodes
    /\ LET last == discovered_nodes[Len(discovered_nodes)].items
       IN  /\ last["node_id"] = Py("str", "node-b")
           /\ last["ip_address"] = Py("str", "10.0.0.9")
           /\ mesh_nodes["node-b"].ip_address = Py("str", "10.0.0.2")
           /\ mesh_nodes["node-b"].last_seen = clock

\* An optimization tick runs: optimize_aggregation copies the local node's
\* metrics into the connection infos.
OptCopies == pc["optimization"] = "optimize" /\ pc'["optimization"] = "sleep"

CheckRuns == [healthy : BOOLEAN, n : 1..(MaxCount + 1)]

\* The run of checks of interface i; no run when it was never checked.
RunOf(i) == IF i \in DOMAIN check_run THEN check_run[i] ELSE [healthy |-> TRUE, n |-> 0]

\* C34: in the monitoring loop of a started manager, the state is degraded
\* only while every interface is failed; a failed interface never has a run
\* of recovery_threshold healthy checks behind it (the check that completes
\* the run removes it from the failed set); and while the state is degraded
\* the health check of every failed interface keeps coming: whatever the run
\* of checks of the interface is, a further check of it eventually happens.
\* So an interface whose checks are healthy from some tick on leaves the
\* failed set, and the state leaves degraded with it.
C34_DegradedKeepsChecking ==
    /\ [](fo_state = "degraded" => Range(local_node.connections) \subseteq failed_interfaces)
    /\ [](\A i \in failed_interfaces :
            /\ i \in DOMAIN check_run
            /\ ~(check_run[i].healthy /\ check_run[i].n >= recovery_threshold))
    /\ \A i \in Names : \A r \in CheckRuns :
            (fo_state = "degraded" /\ i \in failed_interfaces /\ RunOf(i) = r)
                ~> (RunOf(i) # r)

\* The one interface failed, the state was degraded, and two healthy checks
\* later the interface is restored and the state normal again.
C34_Witness ==
    /\ fo_state = "normal"
    /\ failed_interfaces = {}
    /\ failover_events = << [event_type |-> "connection_lost", interface |-> "eth0"],
                            [event_type |-> "connection_restored", interface |-> "eth0"] >>
    /\ check_run["eth0"] = [healthy |-> TRUE, n |-> recovery_threshold]
    /\ pc["monitoring"] = "sleep"

\* C35: once start() has returned, which it does through stop(), the
\* aggregator has been shut down: it no longer runs (its monitoring thread,
\* which loops while the flag is set, has been told to stop) and the send
\* queues it created at initialization are gone.
C35_AggregatorShutDown ==
    pc[housekeeping] = "done" => ~agg_running /\ packet_queues = << >>

\* The successful probes of the observed health-check call.
Succeeded == {k \in DOMAIN health_call.probes : health_call.probes[k] = "success"}
ProbeRaised == \E k \in DOMAIN health_call.probes : health_call.probes[k] = "raised"

HistoryOf(i) == interfaces[i].history.items
MeasuredFields == {"bandwidth_up", "bandwidth_down", "latency", "jitter", "packet_loss"}
RECURSIVE FieldTotal(_, _, _)
\* The total of field f over the first k samples of the history of i.
FieldTotal(i, f, k) == IF k = 0 THEN 0 ELSE HistoryOf(i)[k][f] + FieldTotal(i, f, k - 1)

\* C37: after any sequence of collections the rolling history of an interface
\* holds at most 100 samples, the most recent ones in collection order (the
\* oldest evicted first), and after each collection the average is the
\* per-field mean and the peak the per-field maximum over exactly the samples
\* in the history.
C37_RollingHistory ==
    /\ [](\A i \in DOMAIN interfaces :
            /\ Len(HistoryOf(i)) \in 1..100
            /\ \A k \in DOMAIN HistoryOf(i) :
                    HistoryOf(i)[k].timestamp = CollectedAt(i) - Len(HistoryOf(i)) + k
            /\ \A f \in MeasuredFields :
                    /\ interfaces[i].averages[f][1] * Len(HistoryOf(i)) =
                            interfaces[i].averages[f][2] * FieldTotal(i, f, Len(HistoryOf(i)))
                    /\ \E k \in DOMAIN HistoryOf(i) : HistoryOf(i)[k][f] = interfaces[i].peaks[f]
                    /\ \A k \in DOMAIN HistoryOf(i) : HistoryOf(i)[k][f] <= interfaces[i].peaks[f])
    /\ [][\A i \in DOMAIN interfaces' :
            LET before == IF i \in DOMAIN interfaces THEN HistoryOf(i) ELSE << >>
                all == Append(before, interfaces'[i].current)
                kept == IF Len(all) > 100 THEN 100 ELSE Len(all)
            IN  (i \notin DOMAIN interfaces \/ interfaces'[i] # interfaces[i]) =>
                    interfaces'[i].history.items = SubSeq(all, Len(all) - kept + 1, Len(all))]_vars

\* A full history that has evicted its two oldest samples or more and whose
\* newest sample found the interface unreachable: the peak bandwidth is that
\* of the older samples, the average latency is no longer the reachable one.
C37_Witness ==
    /\ "eth0" \in DOMAIN interfaces
    /\ Len(HistoryOf("eth0")) = 100
    /\ CollectedAt("eth0") > 101
    /\ HistoryOf("eth0")[100].latency = UnreachableMeasure("eth0").latency
    /\ interfaces["eth0"].peaks.bandwidth_up = SimpleBandwidthTest("eth0")
    /\ interfaces["eth0"].averages.latency # <<10, 1>>

\* C38: from a manager whose primary is not failed, through any sequence of
\* health-check outcomes and manual_failover calls, the primary interface is
\* none or an interface outside the failed set.
C38_PrimaryNeverFailed ==
    primary_interface # None => primary_interface \notin failed_interfaces

\* A manual failover made wlan0 the primary and eth0 failed; wlan0 then failed
\* its health checks and the primary was selected anew.
C38_Witness ==
    /\ failover_events = <<[event_type |-> "manual_failover", interface |-> "eth0"],
                           [event_type |-> "connection_lost", interface |-> "wlan0"]>>
    /\ failed_interfaces = {"eth0", "wlan0"}
    /\ primary_interface # "wlan0"

\* C39: recovery hysteresis counts from the moment of failure. An interface
\* that entered the failed set by the threshold of unhealthy checks or by
\* manual_failover leaves it by health checking only at a check that completes
\* at least recovery_threshold consecutive healthy checks, all of them made
\* after it entered the set; with recovery_threshold >= 2 a single healthy
\* check never recovers it.
C39_RecoveryCountsFromFailure ==
    [][\A pings \in Ticks :
        CheckFailoverConditions(pings) =>
            \A i \in failed_interfaces \ failed_interfaces' :
                recovery_run'[i] >= recovery_threshold]_vars

\* C40: no needless primary change. A monitoring tick in which an interface
\* other than the primary leaves the failed set, while the primary is an
\* interface that is not failed and does not fail in the tick, leaves the
\* primary unchanged; and a monitoring tick that changes no membership of the
\* failed set leaves the primary unchanged.
C40_NoNeedlessPrimaryChange ==
    [][\A pings \in Ticks :
        CheckFailoverConditions(pings) =>
            /\ (/\ primary_interface # None
                /\ primary_interface \notin failed_interfaces \cup failed_interfaces'
                /\ \E i \in failed_interfaces \ failed_interfaces' : i # primary_interface)
                    => primary_interface' = primary_interface
            /\ failed_interfaces' = failed_interfaces
                    => primary_interface' = primary_interface]_vars

====
